---- MODULE Spec2Model ----
(***************************************************************************)
(* @jshow/cli: the registry (CommandProgram: install, use, reset, run),    *)
(* the binding of command classes to Commander sub-commands, and the hook  *)
(* sequence BaseCommand.setupAction wraps around execute().                *)
(*                                                                         *)
(* Objects are records; object identity is the id drawn from an allocation *)
(* counter when the constructor runs.  Strings that the code takes apart   *)
(* (option flags) are sequences of one-character strings.                  *)
(***************************************************************************)
EXTENDS Integers, Sequences, FiniteSets, TLC

\* ------------------------------------------------------------------ bounds
\* plugin instances constructed over a behaviour (calls of `new plugin()`)
MaxPluginInstances == 2
\* command instances constructed over a behaviour (calls of `new item.command`)
MaxCommandInstances == 1

\* ------------------------------------------------------- program constants
DEFAULT_GROUP == "default"
DEFAULT_PRIORITY == 100
NoGroup == "undefined"
Undefined == "undefined"
Null == "null"
\* the CommandProgram class: `this` in its static methods
This == "CommandProgram"

\* --------------------------------------------------------- plugin classes
\* A plugin class: static name, the priority its getter returns, and which
\* optional hooks it defines.
LoggerPlugin ==
    [name |-> "logger", priority |-> 50, force |-> FALSE,
     beforeExecute |-> TRUE, afterExecute |-> TRUE]

TimerPlugin ==
    [name |-> "timer", priority |-> DEFAULT_PRIORITY, force |-> FALSE,
     beforeExecute |-> TRUE, afterExecute |-> TRUE]

\* a second class registered under the name "logger"; it keeps BasePlugin's
\* default priority and defines no afterExecute
SimplePlugin ==
    [name |-> "logger", priority |-> DEFAULT_PRIORITY, force |-> FALSE,
     beforeExecute |-> TRUE, afterExecute |-> FALSE]

\* the error-handler example: low priority, runs last
ErrorHandlerPlugin ==
    [name |-> "error-handler", priority |-> 200, force |-> FALSE,
     beforeExecute |-> TRUE, afterExecute |-> TRUE]

\* a class named logger that sets static force = true
ForcedLoggerPlugin ==
    [name |-> "logger", priority |-> 10, force |-> TRUE,
     beforeExecute |-> TRUE, afterExecute |-> FALSE]

PluginClass ==
    [LoggerPlugin |-> LoggerPlugin, TimerPlugin |-> TimerPlugin,
     SimplePlugin |-> SimplePlugin, ErrorHandlerPlugin |-> ErrorHandlerPlugin,
     ForcedLoggerPlugin |-> ForcedLoggerPlugin]

\* the classes install() is called with
PluginClasses == {"LoggerPlugin", "TimerPlugin", "SimplePlugin"}

\* -------------------------------------------------------- command classes
\* flags and option keys, spelled out as characters
Flag_watch == <<"-", "-", "w", "a", "t", "c", "h">>
Flag_mode == <<"-", "-", "m", "o", "d", "e", " ", "<", "m", "o", "d", "e", ">">>
Flag_env == <<"-", "-", "e", "n", "v", " ", "<", "n", "a", "m", "e", ">">>
Key_mode == <<"m", "o", "d", "e">>
Key_env == <<"e", "n", "v">>
Flag_name == <<"-", "-", "n", "a", "m", "e", " ", "<", "v", "a", "l", "u", "e", ">">>
Flag_verbose == <<"-", "-", "v", "e", "r", "b", "o", "s", "e">>
Key_name == <<"n", "a", "m", "e">>

\* A command class: static name and force, the args getter (declared plugin
\* names, group, option specs, whether a validate function is declared),
\* which optional hooks it defines and what its onError returns;
\* staticPlugins is a static `plugins` property of the class, if it has one.
BuildCommand ==
    [name |-> "build", force |-> FALSE,
     staticPlugins |-> <<>>,
     plugins |-> <<"logger", "timer">>, group |-> "build",
     options |-> <<[flag |-> Flag_watch, required |-> FALSE],
                   [flag |-> Flag_mode, required |-> FALSE]>>,
     validate |-> "mode",
     beforeExecute |-> TRUE, afterExecute |-> TRUE, onError |-> TRUE]

\* the CommonJS twin registered under the same name
BuildCommandJs ==
    [name |-> "build", force |-> FALSE,
     staticPlugins |-> <<>>,
     plugins |-> <<"timer", "logger">>, group |-> "build",
     options |-> <<[flag |-> Flag_mode, required |-> FALSE]>>,
     validate |-> "mode",
     beforeExecute |-> TRUE, afterExecute |-> TRUE, onError |-> TRUE]

\* a command that names its plugins out of priority order, names one that is
\* never installed, has a required option, no hooks of its own and the
\* inherited onError
DeployCommand ==
    [name |-> "deploy", force |-> FALSE,
     staticPlugins |-> <<>>,
     plugins |-> <<"timer", "logger", "metrics">>, group |-> NoGroup,
     options |-> <<[flag |-> Flag_env, required |-> TRUE]>>,
     validate |-> "none",
     beforeExecute |-> FALSE, afterExecute |-> FALSE, onError |-> FALSE]

\* the command of the test suite: --name is required, the validate function
\* rejects the name "invalid"; no plugins, no hooks, the inherited onError
TestCommand ==
    [name |-> "test", force |-> FALSE,
     staticPlugins |-> <<>>,
     plugins |-> <<>>, group |-> "test",
     options |-> <<[flag |-> Flag_name, required |-> TRUE],
                   [flag |-> Flag_verbose, required |-> FALSE]>>,
     validate |-> "name",
     beforeExecute |-> FALSE, afterExecute |-> FALSE, onError |-> FALSE]

\* a command with two required options, declared --env then --mode, and a
\* validate function that answers the mode "staging" with the empty string
StrictCommand ==
    [name |-> "strict", force |-> FALSE,
     staticPlugins |-> <<>>,
     plugins |-> <<"logger", "timer">>, group |-> NoGroup,
     options |-> <<[flag |-> Flag_env, required |-> TRUE],
                   [flag |-> Flag_mode, required |-> TRUE]>>,
     validate |-> "blank",
     beforeExecute |-> TRUE, afterExecute |-> TRUE, onError |-> FALSE]

\* the command as the README writes it: the plugin names in a static
\* property of the class, none in the object its args getter returns
ReadmeCommand ==
    [name |-> "docs", force |-> FALSE,
     staticPlugins |-> <<"logger", "timer">>,
     plugins |-> <<>>, group |-> NoGroup,
     options |-> <<>>,
     validate |-> "none",
     beforeExecute |-> FALSE, afterExecute |-> FALSE, onError |-> FALSE]

\* a class named build that sets static force = true; no options, no hooks
\* of its own, the inherited onError
ForcedBuildCommand ==
    [name |-> "build", force |-> TRUE,
     staticPlugins |-> <<>>,
     plugins |-> <<"logger">>, group |-> NoGroup,
     options |-> <<>>,
     validate |-> "none",
     beforeExecute |-> FALSE, afterExecute |-> FALSE, onError |-> FALSE]

CommandClass ==
    [BuildCommand |-> BuildCommand, BuildCommandJs |-> BuildCommandJs,
     DeployCommand |-> DeployCommand, TestCommand |-> TestCommand,
     StrictCommand |-> StrictCommand, ReadmeCommand |-> ReadmeCommand,
     ForcedBuildCommand |-> ForcedBuildCommand]

\* the classes use() is called with
CommandClasses == {"BuildCommand", "BuildCommandJs", "DeployCommand"}

CommandNames == {CommandClass[c].name : c \in CommandClasses}

\* parsed option objects handed to the action callback (command.opts())
OptionInputs ==
    {[k \in {Key_mode, Key_env} |-> IF k = Key_mode THEN "production" ELSE "prod"],
     [k \in {Key_mode} |-> "staging"]}

\* ------------------------------------------------------------------ state
VARIABLES
    plugins,        \* programShape.plugins: sequence of PluginType entries
    commands,       \* programShape.commands: the Map, in insertion order
    program,        \* programShape.program: the Commander program
    nextPluginId,   \* identity of the next plugin instance constructed
    nextCommandId,  \* identity of the next command instance constructed
    call,           \* the most recent call on CommandProgram
    result,         \* what that call did: error thrown, callback outcome
    calls,          \* hooks the most recent call invoked, in call order
    context,        \* history of the CommandContext objects: how many the
                    \* callbacks created and which of them each call of
                    \* `calls` received (recorded under ContextSpec)
    cli             \* runjShow (cli.ts): where it stands and the loads it
                    \* started (idle unless under CliSpec)

vars ==
    <<plugins, commands, program, nextPluginId, nextCommandId, call, result,
      calls, context, cli>>

\* new Command(): no sub-commands, helpInformation as Commander defines it.
\* helpInformation is "original" for Commander's own function, "enhanced"
\* for one wrapper of enhanceHelp around it, "stacked" for two or more
NewCommand == [commands |-> <<>>, helpInformation |-> "original"]

NoPlugin == [id |-> 0, cls |-> "none"]
NoInstance == [id |-> 0, cls |-> "none", plugins |-> <<>>]
NoError == [kind |-> "none"]

\* ------------------------------------------------- CommandProgram.install
\* the entry's class compared with the name
someComparingClass(ps, name) == \E i \in 1..Len(ps) : ps[i].plugin = name

\* plugins.some(p => p.name === name)
some(ps, name) == \E i \in 1..Len(ps) : ps[i].name = name

\* the entry put in front of the entries of its own priority
InsertBeforeEqual(sorted, e) ==
    LET stop == Cardinality({i \in 1..Len(sorted) : sorted[i].priority < e.priority})
    IN  SubSeq(sorted, 1, stop) \o <<e>> \o SubSeq(sorted, stop + 1, Len(sorted))

\* One step of the stable sort: e goes after every entry whose priority is
\* not greater than its own (comparator a.priority - b.priority).
InsertStable(sorted, e) ==
    LET stop == Cardinality({i \in 1..Len(sorted) : sorted[i].priority <= e.priority})
    IN  SubSeq(sorted, 1, stop) \o <<e>> \o SubSeq(sorted, stop + 1, Len(sorted))

RECURSIVE SortFrom(_, _)
SortFrom(done, rest) ==
    IF rest = <<>> THEN done
    ELSE SortFrom(InsertStable(done, Head(rest)), Tail(rest))

\* the list left in push order
sortSkipped(ps) == ps

\* plugins.sort((a, b) => a.priority - b.priority): Array.prototype.sort is
\* stable, so entries that compare equal keep their order
sort(ps) == SortFrom(<<>>, ps)

\* the entry install pushes: priority is read from the new instance
PluginEntry(cls, id) ==
    [name |-> PluginClass[cls].name, plugin |-> cls,
     priority |-> PluginClass[cls].priority,
     instance |-> [id |-> id, cls |-> cls]]

PluginExistsError(name) == [kind |-> "PluginExists", name |-> name]

\* the force flag read the wrong way round
installOpForceInverted(ps, cls, force, id) ==
    LET name == PluginClass[cls].name
    IN  IF some(ps, name) /\ force
        THEN [error |-> PluginExistsError(name), plugins |-> ps, constructed |-> 0,
              returned |-> Undefined]
        ELSE [error |-> NoError,
              plugins |-> sort(Append(ps, PluginEntry(cls, id))),
              constructed |-> 1, returned |-> This]

\* the instance constructed before the name is looked up
installOpConstructingFirst(ps, cls, force, id) ==
    LET name == PluginClass[cls].name
    IN  IF some(ps, name) /\ ~force
        THEN [error |-> PluginExistsError(name), plugins |-> ps, constructed |-> 1,
              returned |-> Undefined]
        ELSE [error |-> NoError,
              plugins |-> sort(Append(ps, PluginEntry(cls, id))),
              constructed |-> 1, returned |-> This]

\* install(plugin, force) on the list ps; id is the identity the instance
\* gets if the constructor runs
installOp(ps, cls, force, id) ==
    LET name == PluginClass[cls].name
    IN  IF some(ps, name) /\ ~force
        THEN [error |-> PluginExistsError(name), plugins |-> ps, constructed |-> 0,
              returned |-> Undefined]
        ELSE [error |-> NoError,
              plugins |-> sort(Append(ps, PluginEntry(cls, id))),
              constructed |-> 1, returned |-> This]

\* ----------------------------------------------------- CommandProgram.use
\* only entries that have no instance yet count as present
hasUnbound(cs, name) ==
    \E i \in 1..Len(cs) : cs[i].name = name /\ cs[i].instance.id = 0

\* commands.has(name)
has(cs, name) == \E i \in 1..Len(cs) : cs[i].name = name

\* the new value merged into the old entry, which keeps instance and group
setMerging(cs, name, value) ==
    IF \E i \in 1..Len(cs) : cs[i].name = name
    THEN [i \in 1..Len(cs) |->
            IF cs[i].name = name
            THEN [value EXCEPT !.instance = cs[i].instance, !.group = cs[i].group]
            ELSE cs[i]]
    ELSE Append(cs, value)

\* commands.set(name, value): a present key keeps its place in the Map and
\* gets the new value, an absent key is added at the end
set(cs, name, value) ==
    IF has(cs, name)
    THEN [i \in 1..Len(cs) |-> IF cs[i].name = name THEN value ELSE cs[i]]
    ELSE Append(cs, value)

\* the command constructed when it is registered
CommandEntryConstructed(cls) ==
    [name |-> CommandClass[cls].name, command |-> cls,
     instance |-> [id |-> 1, cls |-> cls, plugins |-> <<>>], group |-> NoGroup]

\* the value use stores: { name, command }, no instance, no group
CommandEntry(cls) ==
    [name |-> CommandClass[cls].name, command |-> cls,
     instance |-> NoInstance, group |-> NoGroup]

CommandExistsError(name) == [kind |-> "CommandExists", name |-> name]

\* use declared without a return statement
useOpReturningNothing(cs, cls, force) ==
    LET name == CommandClass[cls].name
    IN  IF has(cs, name) /\ ~force
        THEN [error |-> CommandExistsError(name), commands |-> cs,
              returned |-> Undefined]
        ELSE [error |-> NoError, commands |-> set(cs, name, CommandEntry(cls)),
              returned |-> Undefined]

\* use(command, force) on the map cs; `returned` is what the call evaluates
\* to: `this` after return this, nothing when it threw
useOp(cs, cls, force) ==
    LET name == CommandClass[cls].name
    IN  IF has(cs, name) /\ ~force
        THEN [error |-> CommandExistsError(name), commands |-> cs,
              returned |-> Undefined]
        ELSE [error |-> NoError, commands |-> set(cs, name, CommandEntry(cls)),
              returned |-> This]

\* ------------------------------------------- BaseCommand: the hook sequence
\* getPlugins(): this.plugins.filter(p => names.includes(p.name)), where
\* this.plugins is the array the constructor received
includes(names, name) == \E i \in 1..Len(names) : names[i] = name

\* the plugins taken in the order the command declares their names
getPluginsAsDeclared(instance) ==
    LET names == CommandClass[instance.cls].plugins
        named(n) == SelectSeq(instance.plugins, LAMBDA p : PluginClass[p.cls].name = n)
        Collect[i \in 0..Len(names)] ==
            IF i = 0 THEN <<>> ELSE Collect[i - 1] \o named(names[i])
    IN  Collect[Len(names)]

\* the plugins filtered out of programShape.plugins when the callback runs
getPluginsLive(instance) ==
    LET names == CommandClass[instance.cls].plugins
    IN  SelectSeq([i \in 1..Len(plugins) |-> plugins[i].instance],
                  LAMBDA p : includes(names, PluginClass[p.cls].name))

getPlugins(instance) ==
    LET names == CommandClass[instance.cls].plugins
    IN  SelectSeq(instance.plugins,
                  LAMBDA p : includes(names, PluginClass[p.cls].name))

\* extractOptionName(flag): flag.replace(/^--?/, '').split(/\s+/)[0].trim()
\* \s: a space or a tab
IsSpace(c) == c \in {" ", "\t"}

\* every leading dash removed
StripAllDashes(flag) ==
    IF Len(flag) >= 1 /\ flag[1] = "-"
    THEN SubSeq(flag, 1 + Cardinality({i \in 1..Len(flag) :
                                         \A j \in 1..i : flag[j] = "-"}),
                Len(flag))
    ELSE flag

\* flag.replace(/^--?/, ''): one dash removed, and a second if it follows
StripDashes(flag) ==
    IF Len(flag) >= 2 /\ flag[1] = "-" /\ flag[2] = "-" THEN SubSeq(flag, 3, Len(flag))
    ELSE IF Len(flag) >= 1 /\ flag[1] = "-" THEN SubSeq(flag, 2, Len(flag))
    ELSE flag

FirstField(str) ==
    IF \E i \in 1..Len(str) : IsSpace(str[i])
    THEN SubSeq(str, 1, (CHOOSE i \in 1..Len(str) :
                            /\ IsSpace(str[i])
                            /\ \A j \in 1..(i - 1) : ~IsSpace(str[j])) - 1)
    ELSE str

extractOptionName(flag) == FirstField(StripDashes(flag))

\* only a key the object does not have counts as missing
IsNullishOwnKey(options, key) == key \notin DOMAIN options

\* options[optionName] == null: true of null and of undefined, and so of a
\* key the object does not have
IsNullish(options, key) ==
    \/ key \notin DOMAIN options
    \/ options[key] \in {Undefined, Null}

NoMessage == [kind |-> "null", text |-> ""]
RequiredMessage(flag) == [kind |-> "required", text |-> flag]
CustomMessage(text) == [kind |-> "custom", text |-> text]

\* the validate function of the example commands: a mode that is set must be
\* development or production
validate(which, options) ==
    IF which = "mode"
    THEN IF ~IsNullish(options, Key_mode)
            /\ options[Key_mode] \notin {"development", "production"}
         THEN CustomMessage("mode must be development or production")
         ELSE NoMessage
    \* TestCommand: if (options.name === 'invalid') return '...'; return null
    ELSE IF which = "name"
    THEN IF ~IsNullish(options, Key_name) /\ options[Key_name] = "invalid"
         THEN CustomMessage("name must not be invalid")
         ELSE NoMessage
    \* options => options.mode === 'staging' ? '' : null
    ELSE IF which = "blank"
    THEN IF ~IsNullish(options, Key_mode) /\ options[Key_mode] = "staging"
         THEN CustomMessage("")
         ELSE NoMessage
    ELSE NoMessage

\* the declared validate function asked before the required options
validateOptionsCustomFirst(cls, options) ==
    LET defs == CommandClass[cls].options
        missing == {i \in 1..Len(defs) :
                      /\ defs[i].required
                      /\ IsNullish(options, extractOptionName(defs[i].flag))}
        custom == validate(CommandClass[cls].validate, options)
    IN  IF CommandClass[cls].validate # "none" /\ custom # NoMessage
        THEN custom
        ELSE IF missing # {}
             THEN RequiredMessage(defs[CHOOSE i \in missing : \A j \in missing : i <= j].flag)
             ELSE NoMessage

\* validateOptions(options): the first required option without a value, else
\* what the declared validate returns, else null
validateOptions(cls, options) ==
    LET defs == CommandClass[cls].options
        missing == {i \in 1..Len(defs) :
                      /\ defs[i].required
                      /\ IsNullish(options, extractOptionName(defs[i].flag))}
    IN  IF missing # {}
        THEN RequiredMessage(defs[CHOOSE i \in missing : \A j \in missing : i <= j].flag)
        ELSE IF CommandClass[cls].validate # "none"
             THEN validate(CommandClass[cls].validate, options)
             ELSE NoMessage

\* if (validationError): null and the empty string are falsy
Truthy(message) == message.kind # "null" /\ message.text # ""

Step(kind, plugin) == [kind |-> kind, plugin |-> plugin]

\* the after-hooks of the plugins unwound in the reverse of the before order
TryBlockUnwinding(instance) ==
    LET cls == CommandClass[instance.cls]
        resolved == getPlugins(instance)
        befores == SelectSeq(resolved, LAMBDA p : PluginClass[p.cls].beforeExecute)
        afters == SelectSeq(resolved, LAMBDA p : PluginClass[p.cls].afterExecute)
    IN  [i \in 1..Len(befores) |-> Step("plugin.beforeExecute", befores[i])]
        \o (IF cls.beforeExecute THEN <<Step("beforeExecute", NoPlugin)>> ELSE <<>>)
        \o <<Step("validateOptions", NoPlugin)>>
        \o <<Step("execute", NoPlugin)>>
        \o (IF cls.afterExecute THEN <<Step("afterExecute", NoPlugin)>> ELSE <<>>)
        \o [i \in 1..Len(afters) |->
              Step("plugin.afterExecute", afters[Len(afters) + 1 - i])]

\* the options validated after execute() and the after-hooks
TryBlockValidatingLate(instance) ==
    LET cls == CommandClass[instance.cls]
        resolved == getPlugins(instance)
        befores == SelectSeq(resolved, LAMBDA p : PluginClass[p.cls].beforeExecute)
        afters == SelectSeq(resolved, LAMBDA p : PluginClass[p.cls].afterExecute)
    IN  [i \in 1..Len(befores) |-> Step("plugin.beforeExecute", befores[i])]
        \o (IF cls.beforeExecute THEN <<Step("beforeExecute", NoPlugin)>> ELSE <<>>)
        \o <<Step("execute", NoPlugin)>>
        \o (IF cls.afterExecute THEN <<Step("afterExecute", NoPlugin)>> ELSE <<>>)
        \o [i \in 1..Len(afters) |-> Step("plugin.afterExecute", afters[i])]
        \o <<Step("validateOptions", NoPlugin)>>

\* the calls of the try block when nothing fails, in the order the code makes
\* them; a hook that is not defined is not called
TryBlock(instance) ==
    LET cls == CommandClass[instance.cls]
        resolved == getPlugins(instance)
        befores == SelectSeq(resolved, LAMBDA p : PluginClass[p.cls].beforeExecute)
        afters == SelectSeq(resolved, LAMBDA p : PluginClass[p.cls].afterExecute)
    IN  [i \in 1..Len(befores) |-> Step("plugin.beforeExecute", befores[i])]
        \o (IF cls.beforeExecute THEN <<Step("beforeExecute", NoPlugin)>> ELSE <<>>)
        \o <<Step("validateOptions", NoPlugin)>>
        \o <<Step("execute", NoPlugin)>>
        \o (IF cls.afterExecute THEN <<Step("afterExecute", NoPlugin)>> ELSE <<>>)
        \o [i \in 1..Len(afters) |-> Step("plugin.afterExecute", afters[i])]

\* the validation error reported under a fixed text
GenericError(message) ==
    [kind |-> "validation", message |-> CustomMessage("validation failed")]

\* throw new Error(validationError): the message is the string validation
\* returned
ValidationError(message) == [kind |-> "validation", message |-> message]

\* the after-hooks run as in a finally block: a throwing call is followed by
\* the calls that remain of the try block
RECURSIVE RunTryFinally(_, _, _, _, _)
RunTryFinally(plan, i, cls, options, throws) ==
    IF i > Len(plan) THEN [calls |-> plan, error |-> NoError]
    ELSE IF plan[i].kind = "validateOptions"
    THEN LET message == validateOptions(cls, options)
         IN  IF Truthy(message)
             THEN [calls |-> SubSeq(plan, 1, i),
                   error |-> ValidationError(message)]
             ELSE RunTryFinally(plan, i + 1, cls, options, throws)
    ELSE IF plan[i].kind = throws
    THEN [calls |-> plan, error |-> [kind |-> "thrown", by |-> plan[i]]]
    ELSE RunTryFinally(plan, i + 1, cls, options, throws)

\* a call of a hook that throws is taken as a call that returns
RECURSIVE RunTryIgnoringHooks(_, _, _, _, _)
RunTryIgnoringHooks(plan, i, cls, options, throws) ==
    IF i > Len(plan) THEN [calls |-> plan, error |-> NoError]
    ELSE IF plan[i].kind = "validateOptions"
    THEN LET message == validateOptions(cls, options)
         IN  IF Truthy(message)
             THEN [calls |-> SubSeq(plan, 1, i),
                   error |-> ValidationError(message)]
             ELSE RunTryIgnoringHooks(plan, i + 1, cls, options, throws)
    ELSE IF plan[i].kind = throws /\ throws = "execute"
    THEN [calls |-> SubSeq(plan, 1, i), error |-> [kind |-> "thrown", by |-> plan[i]]]
    ELSE RunTryIgnoringHooks(plan, i + 1, cls, options, throws)

\* Runs the try block from step i on.  The first call of the kind `throws`
\* throws; validation throws Error(validationError) when the message is
\* truthy.
RECURSIVE RunTry(_, _, _, _, _)
RunTry(plan, i, cls, options, throws) ==
    IF i > Len(plan) THEN [calls |-> plan, error |-> NoError]
    ELSE IF plan[i].kind = "validateOptions"
    THEN LET message == validateOptions(cls, options)
         IN  IF Truthy(message)
             THEN [calls |-> SubSeq(plan, 1, i),
                   error |-> ValidationError(message)]
             ELSE RunTry(plan, i + 1, cls, options, throws)
    ELSE IF plan[i].kind = throws
    THEN [calls |-> SubSeq(plan, 1, i), error |-> [kind |-> "thrown", by |-> plan[i]]]
    ELSE RunTry(plan, i + 1, cls, options, throws)

\* the classes that define an onError of their own; the others inherit
\* BaseCommand.onError
OverridesOnError == {"BuildCommand", "BuildCommandJs"}

\* BaseCommand.onError: console.error(...); return false
BaseOnError == FALSE

\* a default onError that reports the error and marks it handled
onErrorDefaultHandles(cls) ==
    IF cls \in OverridesOnError THEN CommandClass[cls].onError ELSE TRUE

\* this.onError(error, context): the override of the class when it has one,
\* else the inherited default
onError(cls) ==
    IF cls \in OverridesOnError THEN CommandClass[cls].onError ELSE BaseOnError

\* the error thrown again whatever onError returns
catchRethrowing(instance, tried) ==
    IF tried.error = NoError
    THEN [calls |-> tried.calls, outcome |-> "returned", error |-> NoError,
          resolved |-> getPlugins(instance)]
    ELSE [calls |-> Append(tried.calls, Step("onError", NoPlugin)),
          outcome |-> "rethrown",
          error |-> tried.error, resolved |-> getPlugins(instance)]

\* the resolved plugins given an error hook that is called before the
\* command's onError and marks the error handled
catchAskingPlugins(instance, tried) ==
    IF tried.error = NoError
    THEN [calls |-> tried.calls, outcome |-> "returned", error |-> NoError,
          resolved |-> getPlugins(instance)]
    ELSE [calls |-> tried.calls
                    \o [i \in 1..Len(getPlugins(instance)) |->
                          Step("plugin.onError", getPlugins(instance)[i])]
                    \o <<Step("onError", NoPlugin)>>,
          outcome |-> IF onError(instance.cls)
                         \/ getPlugins(instance) # <<>>
                      THEN "absorbed" ELSE "rethrown",
          error |-> tried.error, resolved |-> getPlugins(instance)]

\* onError called at the end of every invocation, as in a finally block
catchAlwaysNotifying(instance, tried) ==
    IF tried.error = NoError
    THEN [calls |-> Append(tried.calls, Step("onError", NoPlugin)),
          outcome |-> "returned", error |-> NoError,
          resolved |-> getPlugins(instance)]
    ELSE [calls |-> Append(tried.calls, Step("onError", NoPlugin)),
          outcome |-> IF onError(instance.cls)
                      THEN "absorbed" ELSE "rethrown",
          error |-> tried.error, resolved |-> getPlugins(instance)]

\* catch (error) { const handled = this.onError(error, context); if
\* (!handled) throw error }: what the callback made of the try block's end
catch(instance, tried) ==
    IF tried.error = NoError
    THEN [calls |-> tried.calls, outcome |-> "returned", error |-> NoError,
          resolved |-> getPlugins(instance)]
    ELSE [calls |-> Append(tried.calls, Step("onError", NoPlugin)),
          outcome |-> IF onError(instance.cls)
                      THEN "absorbed" ELSE "rethrown",
          error |-> tried.error, resolved |-> getPlugins(instance)]

\* the callback setupAction registers with command.action(...)
action(instance, options, throws) ==
    catch(instance, RunTry(TryBlock(instance), 1, instance.cls, options, throws))

\* ----------------------------------------------------- CommandProgram.run
\* setupCommand(program, plugins, item): creates the sub-command, constructs
\* the command with it and with the plugin array, records group and instance
\* on the Map entry
setupCommand(prog, snapshot, item, id) ==
    LET instance == [id |-> id, cls |-> item.command, plugins |-> snapshot]
        declared == CommandClass[item.command].group
    IN  [program |-> [prog EXCEPT !.commands =
                        Append(@, [name |-> item.name, instance |-> instance])],
         item |-> [item EXCEPT
                     !.group = IF declared = NoGroup THEN DEFAULT_GROUP ELSE declared,
                     !.instance = instance]]

\* every entry bound by every run(), the instance check left out
RECURSIVE setupAllRebinding(_, _, _, _, _)
setupAllRebinding(cs, i, prog, snapshot, id) ==
    IF i > Len(cs) THEN [commands |-> cs, program |-> prog, nextCommandId |-> id]
    ELSE setupAllRebinding(
             [cs EXCEPT ![i] = setupCommand(prog, snapshot, cs[i], id).item],
             i + 1, setupCommand(prog, snapshot, cs[i], id).program,
             snapshot, id + 1)

\* programShape.commands.forEach(item => ...): entries that already have an
\* instance are skipped
RECURSIVE setupAll(_, _, _, _, _)
setupAll(cs, i, prog, snapshot, id) ==
    IF i > Len(cs) THEN [commands |-> cs, program |-> prog, nextCommandId |-> id]
    ELSE IF cs[i].instance # NoInstance
    THEN setupAll(cs, i + 1, prog, snapshot, id)
    ELSE LET bound == setupCommand(prog, snapshot, cs[i], id)
         IN  setupAll([cs EXCEPT ![i] = bound.item], i + 1, bound.program,
                      snapshot, id + 1)

\* a new instance of each plugin class constructed at binding
instancesFresh(ps) ==
    [i \in 1..Len(ps) |->
        [id |-> ps[i].instance.id + Len(ps), cls |-> ps[i].instance.cls]]

\* programShape.plugins.map(p => p.instance).filter(p => p != null): a new
\* array, built by this call of run()
instances(ps) == [i \in 1..Len(ps) |-> ps[i].instance]

Unbound(cs) == Cardinality({i \in 1..Len(cs) : cs[i].instance = NoInstance})

\* program.parse(argv): Commander dispatches to the first sub-command whose
\* name is the one on the command line and calls its action callback
findCommand(prog, name) ==
    IF \E i \in 1..Len(prog.commands) : prog.commands[i].name = name
    THEN prog.commands[CHOOSE i \in 1..Len(prog.commands) :
                          /\ prog.commands[i].name = name
                          /\ \A j \in 1..(i - 1) : prog.commands[j].name # name].instance
    ELSE NoInstance

\* what a call did: the error it threw or handed to onError, the command
\* instance whose callback ran, the plugins that callback resolved, how the
\* callback ended, the status run() exited the process with, what run() wrote
\* to the error stream, and the value an install or use call evaluated to
NoResult ==
    [error |-> NoError, invoked |-> NoInstance, resolved |-> <<>>,
     outcome |-> "none", exit |-> 0, stderr |-> <<>>, returned |-> Undefined]

\* the process terminated whenever the callback met an error, absorbed or not
exitOnAnyError(instance, done) ==
    [calls |-> done.calls,
     result |-> [error |-> done.error, invoked |-> instance,
                 resolved |-> done.resolved, outcome |-> done.outcome,
                 exit |-> IF done.error # NoError THEN 1 ELSE 0,
                 stderr |-> IF done.error # NoError
                            THEN <<done.error>> ELSE <<>>,
                 returned |-> Undefined]]

\* the end of run() after the callback of `instance` ended as `done`:
\* catch (error) { console.error(error); process.exit(1) }; `stderr` is what
\* that catch wrote with console.error
exit(instance, done) ==
    [calls |-> done.calls,
     result |-> [error |-> done.error, invoked |-> instance,
                 resolved |-> done.resolved, outcome |-> done.outcome,
                 exit |-> IF done.outcome = "rethrown" THEN 1 ELSE 0,
                 stderr |-> IF done.outcome = "rethrown"
                            THEN <<done.error>> ELSE <<>>,
                 returned |-> Undefined]]

dispatch(instance, argv) ==
    IF instance = NoInstance
    THEN [calls |-> <<>>, result |-> NoResult]
    ELSE exit(instance, action(instance, argv.options, argv.throws))

parse(prog, argv) == dispatch(findCommand(prog, argv.command), argv)

\* enhanceHelp(program): program.helpInformation is replaced by a function
\* that calls the function it replaces and appends the grouped listing
enhanceHelp(prog) ==
    [prog EXCEPT !.helpInformation =
                    IF @ = "original" THEN "enhanced" ELSE "stacked"]

enhanceBound(bound) == [bound EXCEPT !.program = enhanceHelp(@)]

\* run(): binds the commands that have no instance, wraps the help, then
\* parses
runOp(ps, cs, prog, id, argv) ==
    LET bound == enhanceBound(setupAll(cs, 1, prog, instances(ps), id))
    IN  [bound |-> bound, parsed |-> parse(bound.program, argv)]

\* ---------------------------------------------- initBuiltIn and reset(true)
\* the classes ./built-in exports: the two lists the process was started
\* with (none unless a specification says otherwise)
BUILT_IN_PLUGINS == cli.builtIn.plugins
BUILT_IN_COMMANDS == cli.builtIn.commands

\* isPlugin(value) / isCommand(value): a class that extends the base class
isPlugin(value) == value \in DOMAIN PluginClass
isCommand(value) == value \in DOMAIN CommandClass

\* every built-in installed with force
RECURSIVE installEachForcing(_, _, _, _)
installEachForcing(list, i, ps, id) ==
    IF i > Len(list) THEN [error |-> NoError, plugins |-> ps, nextPluginId |-> id]
    ELSE IF ~isPlugin(list[i]) THEN installEachForcing(list, i + 1, ps, id)
    ELSE LET done == installOp(ps, list[i], TRUE, id)
         IN  IF done.error # NoError
             THEN [error |-> done.error, plugins |-> ps, nextPluginId |-> id]
             ELSE installEachForcing(list, i + 1, done.plugins, id + 1)

\* BUILT_IN_PLUGINS.forEach(plugin => program.install(plugin, plugin.force)):
\* the first install that throws ends the loop
RECURSIVE installEach(_, _, _, _)
installEach(list, i, ps, id) ==
    IF i > Len(list) THEN [error |-> NoError, plugins |-> ps, nextPluginId |-> id]
    ELSE IF ~isPlugin(list[i]) THEN installEach(list, i + 1, ps, id)
    ELSE LET done == installOp(ps, list[i], PluginClass[list[i]].force, id)
         IN  IF done.error # NoError
             THEN [error |-> done.error, plugins |-> ps, nextPluginId |-> id]
             ELSE installEach(list, i + 1, done.plugins, id + 1)

\* BUILT_IN_COMMANDS.forEach(command => program.use(command, command.force))
RECURSIVE useEach(_, _, _)
useEach(list, i, cs) ==
    IF i > Len(list) THEN [error |-> NoError, commands |-> cs]
    ELSE IF ~isCommand(list[i]) THEN useEach(list, i + 1, cs)
    ELSE LET done == useOp(cs, list[i], CommandClass[list[i]].force)
         IN  IF done.error # NoError
             THEN [error |-> done.error, commands |-> cs]
             ELSE useEach(list, i + 1, done.commands)

initBuiltIn(ps, cs, id) ==
    LET installed == installEach(BUILT_IN_PLUGINS, 1, ps, id)
        used == useEach(BUILT_IN_COMMANDS, 1, cs)
    IN  IF installed.error # NoError
        THEN [error |-> installed.error, plugins |-> installed.plugins,
              commands |-> cs, nextPluginId |-> installed.nextPluginId]
        ELSE [error |-> used.error, plugins |-> installed.plugins,
              commands |-> used.commands, nextPluginId |-> installed.nextPluginId]

\* which user function throws when it is called, if any
Throwers == {"none", "execute"}

NoArgv == [command |-> "none", options |-> <<>>, throws |-> "none"]

\* a command line: the sub-command it names, the options it parses to, and
\* how the user code of the invoked command behaves
Argv ==
    [command : CommandNames, options : OptionInputs, throws : Throwers]
    \cup {[NoArgv EXCEPT !.command = "--version"]}

\* the command lines of a reset(true): its run() finds no sub-command
ResetArgv == {argv \in Argv : argv.throws = "none" /\ Key_env \notin DOMAIN argv.options}

\* ----------------------------------------------------------------- actions
\* no context created, none passed
NoContext == [created |-> 0, passed |-> <<>>]

\* runjShow not started
NoBuiltIn == [plugins |-> <<>>, commands |-> <<>>]

NoCli ==
    [pc |-> "idle", visited |-> 0, files |-> <<>>, loads |-> <<>>,
     builtIn |-> NoBuiltIn]

NoCall ==
    [op |-> "none", cls |-> "none", force |-> FALSE, autoRun |-> FALSE,
     argv |-> NoArgv]

Init ==
    /\ plugins = <<>>
    /\ commands = <<>>
    /\ program = NewCommand
    /\ nextPluginId = 1
    /\ nextCommandId = 1
    /\ call = NoCall
    /\ result = NoResult
    /\ calls = <<>>
    /\ context = NoContext
    /\ cli = NoCli

install(cls, force) ==
    \E done \in {installOp(plugins, cls, force, nextPluginId)} :
        /\ nextPluginId + done.constructed <= MaxPluginInstances + 1
        /\ plugins' = done.plugins
        /\ nextPluginId' = nextPluginId + done.constructed
        /\ call' = [NoCall EXCEPT !.op = "install", !.cls = cls, !.force = force]
        /\ result' = [NoResult EXCEPT !.error = done.error,
                                      !.returned = done.returned]
        /\ calls' = <<>>
        /\ UNCHANGED <<commands, program, nextCommandId, context, cli>>

use(cls, force) ==
    \E done \in {useOp(commands, cls, force)} :
        /\ commands' = done.commands
        /\ call' = [NoCall EXCEPT !.op = "use", !.cls = cls, !.force = force]
        /\ result' = [NoResult EXCEPT !.error = done.error,
                                      !.returned = done.returned]
        /\ calls' = <<>>
        /\ UNCHANGED <<plugins, program, nextPluginId, nextCommandId, context, cli>>

\* run(): the commands bound, the help wrapped, the command line parsed and
\* the callback of the named command run to its end
bindAndParse(argv) ==
    /\ Unbound(commands) > 0 =>
          nextCommandId + Unbound(commands) <= MaxCommandInstances + 1
    /\ \E done \in {runOp(plugins, commands, program, nextCommandId, argv)} :
        /\ commands' = done.bound.commands
        /\ program' = done.bound.program
        /\ nextCommandId' = done.bound.nextCommandId
        /\ call' = [NoCall EXCEPT !.op = "run", !.argv = argv]
        /\ result' = done.parsed.result
        /\ calls' = done.parsed.calls
        /\ UNCHANGED <<plugins, nextPluginId, cli>>

\* run(), the contexts of its callback not recorded
run(argv) == bindAndParse(argv) /\ UNCHANGED context

\* the plugin list kept across the reset
resetOpKeepingPlugins(autoRun) ==
    [error |-> NoError, plugins |-> plugins, commands |-> <<>>,
     nextPluginId |-> nextPluginId]

\* reset(autoRun): a new Commander program, no plugins, no commands; with
\* autoRun the built-ins are registered and run() is called
resetOp(autoRun) ==
    IF autoRun THEN initBuiltIn(<<>>, <<>>, nextPluginId)
    ELSE [error |-> NoError, plugins |-> <<>>, commands |-> <<>>,
          nextPluginId |-> nextPluginId]

reset(autoRun, argv) ==
    /\ UNCHANGED <<context, cli>>
    /\ autoRun => /\ nextPluginId + Len(BUILT_IN_PLUGINS) <= MaxPluginInstances + 1
                  /\ nextCommandId + Len(BUILT_IN_COMMANDS) <= MaxCommandInstances + 1
    /\ \E builtIn \in {resetOp(autoRun)} :
        /\ plugins' = builtIn.plugins
        /\ nextPluginId' = builtIn.nextPluginId
        /\ call' = [NoCall EXCEPT !.op = "reset", !.autoRun = autoRun,
                                  !.argv = argv]
        /\ IF autoRun /\ builtIn.error = NoError
           THEN \E done \in {runOp(builtIn.plugins, builtIn.commands,
                                     NewCommand, nextCommandId, argv)} :
                    /\ commands' = done.bound.commands
                    /\ program' = done.bound.program
                    /\ nextCommandId' = done.bound.nextCommandId
                    /\ result' = done.parsed.result
                    /\ calls' = done.parsed.calls
           ELSE /\ commands' = builtIn.commands
                /\ program' = NewCommand
                /\ result' = [NoResult EXCEPT !.error = builtIn.error]
                /\ calls' = <<>>
                /\ UNCHANGED nextCommandId

Next ==
    \/ \E cls \in PluginClasses, force \in BOOLEAN : install(cls, force)
    \/ \E cls \in CommandClasses, force \in BOOLEAN : use(cls, force)
    \/ \E argv \in Argv : run(argv)
    \/ \E autoRun \in BOOLEAN :
         \E argv \in (IF autoRun THEN ResetArgv ELSE {NoArgv}) : reset(autoRun, argv)

Spec == Init /\ [][Next]_vars

\* --------------------------------------------- the action callback by itself
\* One or two command classes are registered and bound by one run(), over no
\* plugins or over timer and logger installed in that order; then plugins
\* are installed and command lines are parsed, over a wider range of classes
\* and option objects.
ActionClasses ==
    {"BuildCommand", "DeployCommand", "TestCommand", "StrictCommand",
     "ReadmeCommand"}

ActionNames == {CommandClass[c].name : c \in ActionClasses}

\* the option objects command.opts() returns
ActionOptions ==
    {<<>>,
     Key_name :> "valid",
     Key_name :> "invalid",
     Key_mode :> "staging",
     Key_mode :> "production",
     Key_env :> "prod",
     (Key_env :> "prod") @@ (Key_mode :> "staging"),
     (Key_env :> "prod") @@ (Key_mode :> "production"),
     (Key_env :> Undefined) @@ (Key_mode :> "production")}

\* the command lines: every option object for the commands that declare
\* options, none for the one that declares no option
ActionArgv ==
    [command : ActionNames \ {ReadmeCommand.name}, options : ActionOptions,
     throws : Throwers]
    \cup [command : {ReadmeCommand.name}, options : {<<>>}, throws : Throwers]

\* the plugin list after install(TimerPlugin); install(LoggerPlugin)
TimerThenLogger ==
    installOp(installOp(<<>>, "TimerPlugin", FALSE, 1).plugins,
              "LoggerPlugin", FALSE, 2).plugins

\* the class lists registered before the first run()
ActionRegistered ==
    {<<cls>> : cls \in ActionClasses}
        \cup {<<"BuildCommand", cls>> : cls \in ActionClasses \ {"BuildCommand"}}

\* the Map after use() of each class of the list, in order
useList(list) ==
    IF Len(list) = 1 THEN useOp(<<>>, list[1], FALSE).commands
    ELSE useOp(useOp(<<>>, list[1], FALSE).commands, list[2], FALSE).commands

ActionInit ==
    \E list \in ActionRegistered, ps \in {<<>>, TimerThenLogger} :
        \E done \in {runOp(ps, useList(list), NewCommand, 1, NoArgv)} :
            /\ plugins = ps
            /\ commands = done.bound.commands
            /\ program = done.bound.program
            /\ nextPluginId = Len(ps) + 1
            /\ nextCommandId = done.bound.nextCommandId
            /\ call = [NoCall EXCEPT !.op = "run"]
            /\ result = done.parsed.result
            /\ calls = done.parsed.calls
            /\ context = NoContext
            /\ cli = NoCli

ActionNext ==
    \/ \E argv \in ActionArgv : run(argv)
    \/ \E cls \in PluginClasses, force \in BOOLEAN : install(cls, force)

ActionSpec == ActionInit /\ [][ActionNext]_vars

\* ======================================================== the hook sequence
Rank(kind) ==
    CASE kind = "plugin.beforeExecute" -> 1
      [] kind = "beforeExecute" -> 2
      [] kind = "validateOptions" -> 3
      [] kind = "execute" -> 4
      [] kind = "afterExecute" -> 5
      [] kind = "plugin.afterExecute" -> 6
      [] OTHER -> 7

CallsOf(kind) == {i \in 1..Len(calls) : calls[i].kind = kind}

PriorityOf(p) == PluginClass[p.cls].priority

InResolved(p) == \E i \in 1..Len(result.resolved) : result.resolved[i] = p

\* C1: in an invocation that succeeds the calls are, in this order, the
\* beforeExecute of each resolved plugin in ascending priority, the command's
\* beforeExecute, option validation, execute(), the command's afterExecute,
\* and the afterExecute of each resolved plugin in the same order as the
\* before-hooks.
C1_HookOrder ==
    result.outcome = "returned" =>
        /\ \A i, j \in 1..Len(calls) :
              i < j => Rank(calls[i].kind) <= Rank(calls[j].kind)
        /\ Cardinality(CallsOf("validateOptions")) = 1
        /\ Cardinality(CallsOf("execute")) = 1
        /\ Cardinality(CallsOf("beforeExecute")) =
              IF CommandClass[result.invoked.cls].beforeExecute THEN 1 ELSE 0
        /\ Cardinality(CallsOf("afterExecute")) =
              IF CommandClass[result.invoked.cls].afterExecute THEN 1 ELSE 0
        /\ \A kind \in {"plugin.beforeExecute", "plugin.afterExecute"} :
              /\ \A i, j \in CallsOf(kind) :
                    i < j => PriorityOf(calls[i].plugin) <= PriorityOf(calls[j].plugin)
              /\ \A i \in CallsOf(kind) : InResolved(calls[i].plugin)
        /\ \A k \in 1..Len(result.resolved) :
              LET p == result.resolved[k]
              IN  /\ Cardinality({i \in CallsOf("plugin.beforeExecute") :
                                    calls[i].plugin = p}) =
                        IF PluginClass[p.cls].beforeExecute THEN 1 ELSE 0
                  /\ Cardinality({i \in CallsOf("plugin.afterExecute") :
                                    calls[i].plugin = p}) =
                        IF PluginClass[p.cls].afterExecute THEN 1 ELSE 0
        /\ \A i, j \in CallsOf("plugin.afterExecute") :
              \A k, l \in CallsOf("plugin.beforeExecute") :
                 (i < j /\ calls[k].plugin = calls[i].plugin
                        /\ calls[l].plugin = calls[j].plugin) => k < l

C1_Witness ==
    /\ result.outcome = "returned"
    /\ Cardinality(CallsOf("plugin.beforeExecute")) >= 2
    /\ Cardinality(CallsOf("plugin.afterExecute")) >= 2
    /\ CallsOf("beforeExecute") # {}
    /\ CallsOf("afterExecute") # {}
    /\ \E i, j \in CallsOf("plugin.afterExecute") :
          PriorityOf(calls[i].plugin) < PriorityOf(calls[j].plugin)

\* the hook calls of the last invocation as <<who, hook>>, validation left out
Label(step, cls) ==
    CASE step.kind = "plugin.beforeExecute" -> <<PluginClass[step.plugin.cls].name, "before">>
      [] step.kind = "plugin.afterExecute" -> <<PluginClass[step.plugin.cls].name, "after">>
      [] step.kind = "beforeExecute" -> <<CommandClass[cls].name, "before">>
      [] step.kind = "afterExecute" -> <<CommandClass[cls].name, "after">>
      [] step.kind = "execute" -> <<CommandClass[cls].name, "execute">>
      [] OTHER -> <<CommandClass[cls].name, step.kind>>

HookCalls ==
    LET hooks == SelectSeq(calls, LAMBDA c : c.kind # "validateOptions")
    IN  [i \in 1..Len(hooks) |-> Label(hooks[i], result.invoked.cls)]

\* build declares logger and timer; logger (50) and timer (100) are the
\* installed plugins and were installed when build was bound; the invocation
\* had valid options and nothing threw
BuildScenario ==
    /\ call.op = "run"
    /\ result.invoked.cls = "BuildCommand"
    /\ result.outcome = "returned"
    /\ Len(plugins) = 2
    /\ {plugins[i].plugin : i \in 1..Len(plugins)} = {"LoggerPlugin", "TimerPlugin"}
    /\ result.invoked.plugins = instances(plugins)

\* C2 as stated: the scenario's hook calls are logger.before, timer.before,
\* build.before, build.execute, build.after, timer.after, logger.after.
C2_Original ==
    BuildScenario =>
        HookCalls = << <<"logger", "before">>, <<"timer", "before">>,
                       <<"build", "before">>, <<"build", "execute">>,
                       <<"build", "after">>,
                       <<"timer", "after">>, <<"logger", "after">> >>

\* C2 amended: the scenario's hook calls are logger.before, timer.before,
\* build.before, build.execute, build.after, logger.after, timer.after: the
\* after-hooks of the plugins run in ascending priority too.
C2_BuildHookCalls ==
    BuildScenario =>
        HookCalls = << <<"logger", "before">>, <<"timer", "before">>,
                       <<"build", "before">>, <<"build", "execute">>,
                       <<"build", "after">>,
                       <<"logger", "after">>, <<"timer", "after">> >>

C2_Witness == BuildScenario /\ Len(calls) = 8

\* ============================================================= registration
NamedPlugins(name) == {i \in 1..Len(plugins) : plugins[i].name = name}

NamedCommands(name) == {i \in 1..Len(commands) : commands[i].name = name}

\* C3 as stated: after install(P, true) the list holds exactly one entry with
\* P's name, and it is the instance that call created.
C3_ForceInstallReplaces ==
    (call.op = "install" /\ call.force) =>
        /\ result.error = NoError
        /\ Cardinality(NamedPlugins(PluginClass[call.cls].name)) = 1
        /\ \A i \in NamedPlugins(PluginClass[call.cls].name) :
              /\ plugins[i].plugin = call.cls
              /\ plugins[i].instance.id = nextPluginId - 1

\* C4: install(P, force) with force falsy while the list holds an entry with
\* P's name throws "Plugin '<name>' already exists." and changes nothing,
\* after any sequence of install, use and run calls.
C4_DuplicateInstallRejected ==
    [][(/\ call'.op = "install"
        /\ ~call'.force
        /\ NamedPlugins(PluginClass[call'.cls].name) # {})
       => /\ result'.error = [kind |-> "PluginExists",
                              name |-> PluginClass[call'.cls].name]
          /\ plugins' = plugins
          /\ nextPluginId' = nextPluginId]_vars

C4_Witness ==
    /\ call.op = "install"
    /\ ~call.force
    /\ result.error = [kind |-> "PluginExists", name |-> PluginClass[call.cls].name]
    /\ Len(plugins) = 2
    /\ commands # <<>>
    /\ program.commands # <<>>

\* C5: use(C, force) with force falsy while a command with C's name is
\* registered throws "Command '<name>' already exists." and changes nothing,
\* whether or not the registered command has been bound by run().
C5_DuplicateUseRejected ==
    [][(/\ call'.op = "use"
        /\ ~call'.force
        /\ NamedCommands(CommandClass[call'.cls].name) # {})
       => /\ result'.error = [kind |-> "CommandExists",
                              name |-> CommandClass[call'.cls].name]
          /\ commands' = commands]_vars

C5_Witness ==
    /\ call.op = "use"
    /\ ~call.force
    /\ result.error = [kind |-> "CommandExists", name |-> CommandClass[call.cls].name]
    /\ \E i \in NamedCommands(CommandClass[call.cls].name) :
          commands[i].instance # NoInstance
    /\ \E i \in 1..Len(commands) : commands[i].instance = NoInstance

\* C6: use(C, true) succeeds; afterwards the Map holds exactly one entry for
\* C's name, the entry refers to C and has no instance.
C6_ForceUseReplaces ==
    (call.op = "use" /\ call.force) =>
        /\ result.error = NoError
        /\ Cardinality(NamedCommands(CommandClass[call.cls].name)) = 1
        /\ \A i \in NamedCommands(CommandClass[call.cls].name) :
              /\ commands[i].command = call.cls
              /\ commands[i].instance = NoInstance

\* the replaced command was another class and had been bound
C6_Witness ==
    /\ call.op = "use"
    /\ call.force
    /\ findCommand(program, CommandClass[call.cls].name) # NoInstance
    /\ findCommand(program, CommandClass[call.cls].name).cls # call.cls
    /\ Len(commands) = 1

\* C7: the plugin list is sorted ascending by the priority each plugin
\* reported when it was installed, and entries of equal priority are in the
\* order in which they were installed.
C7_SortedStable ==
    /\ \A i \in 1..Len(plugins) :
          plugins[i].priority = PluginClass[plugins[i].plugin].priority
    /\ \A i, j \in 1..Len(plugins) :
          i < j =>
            /\ plugins[i].priority <= plugins[j].priority
            /\ plugins[i].priority = plugins[j].priority
                  => plugins[i].instance.id < plugins[j].instance.id

C7_Witness ==
    /\ call.op = "install"
    /\ result.error = NoError
    /\ \E i, j \in 1..Len(plugins) :
          /\ i < j
          /\ plugins[i].priority = plugins[j].priority
          /\ plugins[i].plugin # plugins[j].plugin

UniqueNames ==
    /\ \A i, j \in 1..Len(plugins) : plugins[i].name = plugins[j].name => i = j
    /\ \A i, j \in 1..Len(commands) : commands[i].name = commands[j].name => i = j

\* C8: as long as no call passes force = true, no two plugin entries share a
\* name and no two registered commands share a name: names are unique at
\* the start and every call without force keeps them unique.
C8_UniqueWithoutForce ==
    /\ UniqueNames
    /\ [][(UniqueNames /\ ~call'.force) => UniqueNames']_vars

C8_Witness ==
    /\ UniqueNames
    /\ Len(plugins) = 2
    /\ Len(commands) = 2
    /\ ~call.force
    /\ result.error.kind \in {"PluginExists", "CommandExists"}

\* ======================================================= plugin resolution
Declared(instance, p) ==
    includes(CommandClass[instance.cls].plugins, PluginClass[p.cls].name)

Holds(seq, p) == \E i \in 1..Len(seq) : seq[i] = p

\* C9 as stated: the resolved sequence is exactly the installed plugins whose
\* name the command declares, in the order of the plugin list.
C9_Original ==
    result.invoked # NoInstance =>
        result.resolved =
            SelectSeq(instances(plugins), LAMBDA p : Declared(result.invoked, p))

\* the plugins an invocation resolves are those the invoked command was
\* constructed with whose name it declares, each once, in ascending priority;
\* a declared name without a plugin makes nothing fail
ResolvedAtBinding ==
    result.invoked # NoInstance =>
        /\ \A k \in 1..Len(result.resolved) :
              /\ Declared(result.invoked, result.resolved[k])
              /\ Holds(result.invoked.plugins, result.resolved[k])
        /\ \A k \in 1..Len(result.invoked.plugins) :
              Declared(result.invoked, result.invoked.plugins[k]) =>
                 Cardinality({l \in 1..Len(result.resolved) :
                                result.resolved[l] = result.invoked.plugins[k]}) = 1
        /\ \A k, l \in 1..Len(result.resolved) :
              k < l => PriorityOf(result.resolved[k]) <= PriorityOf(result.resolved[l])
        /\ (/\ call.argv.throws = "none"
            /\ ~Truthy(validateOptions(result.invoked.cls, call.argv.options)))
              => result.outcome = "returned"

\* a command that run() binds is constructed with the plugins installed at
\* that moment, and a bound command keeps the plugins it was constructed with
BoundWithInstalled ==
    call'.op = "run" =>
        /\ Len(program'.commands) >= Len(program.commands)
        /\ \A k \in 1..Len(program'.commands) :
              IF k <= Len(program.commands)
              THEN program'.commands[k] = program.commands[k]
              ELSE program'.commands[k].instance.plugins = instances(plugins)

\* C9 amended: the resolved sequence is exactly the plugins that were
\* installed when the command was bound by run() and whose name the command
\* declares, in ascending priority; the order of the declaration has no
\* effect and a declared name that is not installed raises no error.
C9_ResolvedAtBinding == []ResolvedAtBinding /\ [][BoundWithInstalled]_vars

C9_Witness ==
    /\ result.invoked.cls = "DeployCommand"
    /\ result.outcome = "returned"
    /\ [k \in 1..Len(result.resolved) |-> result.resolved[k].cls] =
          <<"LoggerPlugin", "TimerPlugin">>

\* C10 as stated: every installed plugin the invoked command declares has its
\* hooks called around the invocation, whenever it was installed.
C10_Original ==
    (call.op = "run" /\ result.outcome = "returned") =>
        \A i \in 1..Len(plugins) :
           Declared(result.invoked, plugins[i].instance) =>
              /\ PluginClass[plugins[i].plugin].beforeExecute =>
                    \E c \in CallsOf("plugin.beforeExecute") :
                       calls[c].plugin = plugins[i].instance
              /\ PluginClass[plugins[i].plugin].afterExecute =>
                    \E c \in CallsOf("plugin.afterExecute") :
                       calls[c].plugin = plugins[i].instance

\* every plugin hook of an invocation belongs to a plugin the invoked command
\* was constructed with
HooksOfBoundPlugins ==
    result.invoked # NoInstance =>
        \A c \in CallsOf("plugin.beforeExecute") \cup CallsOf("plugin.afterExecute") :
           Holds(result.invoked.plugins, calls[c].plugin)

\* install reaches no command that is already bound
InstallLeavesBound ==
    call'.op = "install" => (program' = program /\ commands' = commands)

\* C10 amended: a plugin installed after a command has been bound by run()
\* is not visible to later invocations of that command: the hooks called
\* around an invocation are those of plugins installed when the command was
\* bound.
C10_LateInstallNotVisible ==
    /\ []HooksOfBoundPlugins
    /\ [][InstallLeavesBound /\ BoundWithInstalled]_vars

\* a plugin the command declares is installed, was not when the command was
\* bound, and the invocation called none of its hooks
C10_Witness ==
    /\ call.op = "run"
    /\ result.outcome = "returned"
    /\ \E i \in 1..Len(plugins) :
          /\ Declared(result.invoked, plugins[i].instance)
          /\ ~Holds(result.invoked.plugins, plugins[i].instance)
          /\ \A c \in 1..Len(calls) : calls[c].plugin # plugins[i].instance

\* ====================================================== validation and errors
\* the state records an invocation: run() dispatched to a bound command
Invoked == call.op = "run" /\ result.invoked # NoInstance

OptionDefs == CommandClass[result.invoked.cls].options

\* the key Commander stores the value of an option under
OptionKey(flag) ==
    CASE flag = Flag_env -> Key_env
      [] flag = Flag_mode -> Key_mode
      [] flag = Flag_name -> Key_name
      [] flag = Flag_watch -> <<"w", "a", "t", "c", "h">>
      [] flag = Flag_verbose -> <<"v", "e", "r", "b", "o", "s", "e">>

HasValue(flag) ==
    /\ OptionKey(flag) \in DOMAIN call.argv.options
    /\ call.argv.options[OptionKey(flag)] # Undefined

\* option spec i is required and the parsed options hold no value for it
MissingRequired(i) == OptionDefs[i].required /\ ~HasValue(OptionDefs[i].flag)

AnyMissingRequired == \E i \in 1..Len(OptionDefs) : MissingRequired(i)

\* C11: when a required option has no value in the parsed options the
\* invocation ends in a validation failure and execute() is not called;
\* execute() is only entered when every required option has a value.
C11_RequiredBeforeExecute ==
    Invoked =>
        /\ AnyMissingRequired =>
              /\ result.error.kind = "validation"
              /\ result.error.message.kind = "required"
              /\ CallsOf("execute") = {}
        /\ CallsOf("execute") # {} => ~AnyMissingRequired

C11_Witness ==
    /\ Invoked
    /\ result.invoked.cls = "StrictCommand"
    /\ HasValue(Flag_env)
    /\ MissingRequired(2)
    /\ result.error.kind = "validation"
    /\ CallsOf("validateOptions") # {}

\* the error the try block raised: the validation error when validation
\* failed, else what execute() threw
Raised ==
    IF CallsOf("execute") = {}
    THEN [kind |-> "validation",
          message |-> validateOptions(result.invoked.cls, call.argv.options)]
    ELSE [kind |-> "thrown", by |-> Step("execute", NoPlugin)]

Failed == Invoked /\ result.error # NoError

\* C12: when an invocation fails in validation or in execute(), onError is
\* called, once and last; if it returns a truthy value the invocation returns
\* normally and nothing reaches the caller (run() does not exit the process);
\* if it returns a falsy value the error that was raised is thrown again.
C12_OnErrorDecides ==
    /\ Failed =>
          /\ Cardinality(CallsOf("onError")) = 1
          /\ calls[Len(calls)].kind = "onError"
          /\ result.error = Raised
          /\ CommandClass[result.invoked.cls].onError =>
                result.outcome = "absorbed" /\ result.exit = 0
          /\ ~CommandClass[result.invoked.cls].onError =>
                result.outcome = "rethrown" /\ result.exit = 1
    /\ (Invoked /\ ~Failed) =>
          CallsOf("onError") = {} /\ result.outcome = "returned"

C12_Witness ==
    /\ Failed
    /\ result.error.kind = "thrown"
    /\ ~CommandClass[result.invoked.cls].onError
    /\ result.outcome = "rethrown"
    /\ CallsOf("onError") # {}

ValidationFailed == Invoked /\ result.error.kind = "validation"

\* C13: when option validation fails, execute() and every afterExecute hook,
\* the command's and each resolved plugin's, are skipped, and the call that
\* follows validation is the command's onError.
C13_ValidationSkipsRest ==
    ValidationFailed =>
        /\ CallsOf("execute") = {}
        /\ CallsOf("afterExecute") = {}
        /\ CallsOf("plugin.afterExecute") = {}
        /\ Len(calls) >= 2
        /\ calls[Len(calls) - 1].kind = "validateOptions"
        /\ calls[Len(calls)].kind = "onError"

C13_Witness ==
    /\ ValidationFailed
    /\ CommandClass[result.invoked.cls].afterExecute
    /\ Cardinality(CallsOf("plugin.beforeExecute")) = 2
    /\ \A k \in 1..Len(result.resolved) :
          PluginClass[result.resolved[k].cls].afterExecute
    /\ CallsOf("beforeExecute") # {}

\* what the declared validate function returns for the parsed options
ValidatorReturns ==
    validate(CommandClass[result.invoked.cls].validate, call.argv.options)

\* every required option has a value and the validator returned a message
\* that is not the empty string
ValidatorRejects ==
    /\ Invoked
    /\ ~AnyMissingRequired
    /\ ValidatorReturns.kind = "custom"
    /\ ValidatorReturns.text # ""

\* C14: when the custom validator rejects the parsed options with a message,
\* the error handed to onError, and thrown again if onError does not handle
\* it, carries exactly that message, and execute() is not called.
C14_ValidatorMessageKept ==
    ValidatorRejects =>
        /\ result.error.kind = "validation"
        /\ result.error.message = ValidatorReturns
        /\ CallsOf("execute") = {}
        /\ calls[Len(calls)].kind = "onError"

C14_Witness ==
    /\ ValidatorRejects
    /\ result.invoked.cls = "BuildCommand"
    /\ call.argv.options[Key_mode] = "staging"
    /\ result.error.message.text = "mode must be development or production"

\* C15 as stated: whenever every required option has a value and the custom
\* validate function returns a string, the empty string included, the
\* invocation is a validation failure with that string as the error and
\* execute() is not called.
C15_EveryStringFails ==
    (Invoked /\ ~AnyMissingRequired /\ ValidatorReturns.kind = "custom") =>
        /\ result.error.kind = "validation"
        /\ result.error.message = ValidatorReturns
        /\ CallsOf("execute") = {}

\* the first option spec, in declared order, that is required and has no value
FirstMissing ==
    CHOOSE i \in 1..Len(OptionDefs) :
        MissingRequired(i) /\ \A j \in 1..(i - 1) : ~MissingRequired(j)

ValidatorDeclared == CommandClass[result.invoked.cls].validate # "none"

\* C16: validation checks the required options first, in declared order, and
\* reports the first one missing; the validate function decides only when
\* every required option has a value; the result is null exactly when no
\* required option is missing and the validator is absent or returns null.
C16_ValidationOrder ==
    Invoked =>
        LET returned == validateOptions(result.invoked.cls, call.argv.options)
        IN  /\ AnyMissingRequired =>
                  returned = RequiredMessage(OptionDefs[FirstMissing].flag)
            /\ (~AnyMissingRequired /\ ValidatorDeclared) =>
                  returned = ValidatorReturns
            /\ (returned = NoMessage) <=>
                  /\ ~AnyMissingRequired
                  /\ ~ValidatorDeclared \/ ValidatorReturns = NoMessage
            /\ ValidationFailed => result.error.message = returned

C16_Witness ==
    /\ Invoked
    /\ result.invoked.cls = "StrictCommand"
    /\ MissingRequired(1)
    /\ MissingRequired(2)
    /\ result.error.kind = "validation"
    /\ result.error.message = RequiredMessage(Flag_env)

\* ================================================== binding and the registry
\* no command constructor has run: the first instance is still to be made
NoConstructorRan == nextCommandId = 1

NothingBound ==
    /\ \A i \in 1..Len(commands) : commands[i].instance = NoInstance
    /\ program.commands = <<>>

\* a use step creates no sub-command, runs no constructor, and leaves with an
\* instance only the entries that had that instance before
UseStoresDescriptor ==
    call'.op = "use" =>
        /\ program' = program
        /\ nextCommandId' = nextCommandId
        /\ \A i \in 1..Len(commands') :
              commands'[i].instance # NoInstance =>
                  \E j \in 1..Len(commands) : commands[j] = commands'[i]

\* C17: use() stores only the descriptor: as long as run() has bound nothing,
\* whatever use calls were made, no registered command has an instance, the
\* parser has no sub-command, and no command constructor has run.
C17_UseStoresDescriptor ==
    /\ [](NoConstructorRan => NothingBound)
    /\ [][UseStoresDescriptor]_vars

C17_Witness ==
    /\ call.op = "use"
    /\ result.error = NoError
    /\ Len(commands) = 2
    /\ NoConstructorRan
    /\ NothingBound

\* the sub-commands of the parser that hold the instance
SubCommandsOf(instance) ==
    {k \in 1..Len(program.commands) : program.commands[k].instance = instance}

\* every bound descriptor has one sub-command, and no instance is behind two
BoundOnce ==
    /\ \A i \in 1..Len(commands) :
          commands[i].instance # NoInstance =>
              Cardinality(SubCommandsOf(commands[i].instance)) = 1
    /\ \A k, l \in 1..Len(program.commands) :
          program.commands[k].instance.id = program.commands[l].instance.id => k = l

\* a run step leaves every bound descriptor and its sub-command as they are
\* and constructs one instance for each descriptor that had none
RunReusesInstances ==
    call'.op = "run" =>
        /\ Len(commands') = Len(commands)
        /\ \A i \in 1..Len(commands) :
              commands[i].instance # NoInstance => commands'[i] = commands[i]
        /\ \A i \in 1..Len(commands') : commands'[i].instance # NoInstance
        /\ SubSeq(program'.commands, 1, Len(program.commands)) = program.commands
        /\ Len(program'.commands) = Len(program.commands) + Unbound(commands)
        /\ nextCommandId' = nextCommandId + Unbound(commands)

\* C18: each command descriptor is bound exactly once: its sub-command is
\* created and its instance constructed a single time, and every later run()
\* reuses the instance the descriptor holds instead of binding again.
C18_BoundOnce == []BoundOnce /\ [][RunReusesInstances]_vars

C18_Witness ==
    /\ call.op = "run"
    /\ result.invoked # NoInstance
    /\ Len(plugins) > Len(result.invoked.plugins)
    /\ Cardinality(SubCommandsOf(result.invoked)) = 1

\* the state a call of reset() has just left
AfterReset == call.op = "reset" /\ ~call.autoRun

Pristine ==
    /\ plugins = <<>>
    /\ commands = <<>>
    /\ program.commands = <<>>

\* the first registration after reset(), made without force, is accepted
RegistersAgain ==
    (AfterReset /\ call'.op \in {"install", "use"} /\ ~call'.force) =>
        /\ result'.error = NoError
        /\ Len(plugins') + Len(commands') = 1

\* C19: after reset() the plugin list is empty, the command map is empty, the
\* parser is a new one with no sub-commands and no command instance is held;
\* so a name registered before the reset is accepted again without force.
C19_ResetClears == [](AfterReset => Pristine) /\ [][RegistersAgain]_vars

C19_Witness ==
    /\ AfterReset
    /\ Pristine
    /\ nextPluginId > 1
    /\ nextCommandId > 1

\* ======================================================== plugin instances
BoundCommands == {i \in 1..Len(commands) : commands[i].instance # NoInstance}

\* the registry entries whose name the bound command i declares
DeclaredBy(i) ==
    {e \in 1..Len(plugins) : Declared(commands[i].instance, plugins[e].instance)}

\* C20 as stated: a plugin is instantiated once, by its install, and every
\* command bound by run() that declares the plugin's name has the hooks
\* called on that instance, so it holds that instance.
C20_Original ==
    /\ \A e, f \in 1..Len(plugins) :
          plugins[e].instance.id = plugins[f].instance.id => e = f
    /\ \A i \in BoundCommands : \A e \in DeclaredBy(i) :
          Holds(commands[i].instance.plugins, plugins[e].instance)

\* each entry of the plugin list has an instance of its own, made by an
\* install that has happened
OneInstancePerEntry ==
    \A e \in 1..Len(plugins) :
        /\ plugins[e].instance.id \in 1..(nextPluginId - 1)
        /\ plugins[e].instance.cls = plugins[e].plugin
        /\ \A f \in 1..Len(plugins) :
              plugins[e].instance.id = plugins[f].instance.id => e = f

\* what a bound command holds are instances of the plugin list, never copies
HeldAreInstalled ==
    \A i \in BoundCommands :
        \A k \in 1..Len(commands[i].instance.plugins) :
            \E e \in 1..Len(plugins) :
                plugins[e].instance = commands[i].instance.plugins[k]

\* an invocation that returns has called each hook of each held instance
\* the command declares, once
HooksOnHeldInstances ==
    (Invoked /\ result.outcome = "returned") =>
        \A k \in 1..Len(result.invoked.plugins) :
            LET p == result.invoked.plugins[k]
            IN  Declared(result.invoked, p) =>
                  /\ Cardinality({c \in CallsOf("plugin.beforeExecute") :
                                    calls[c].plugin = p}) =
                        IF PluginClass[p.cls].beforeExecute THEN 1 ELSE 0
                  /\ Cardinality({c \in CallsOf("plugin.afterExecute") :
                                    calls[c].plugin = p}) =
                        IF PluginClass[p.cls].afterExecute THEN 1 ELSE 0

\* an install that registers constructs one instance, an install that is
\* rejected constructs none
InstallConstructsOne ==
    call'.op = "install" =>
        IF result'.error = NoError
        THEN /\ nextPluginId' = nextPluginId + 1
             /\ Len(plugins') = Len(plugins) + 1
             /\ Cardinality({e \in 1..Len(plugins') :
                               plugins'[e].instance.id = nextPluginId}) = 1
             /\ \A e \in 1..Len(plugins) : Holds(plugins', plugins[e])
        ELSE nextPluginId' = nextPluginId /\ plugins' = plugins

\* run(), binding and invocation included, constructs no plugin
RunConstructsNoPlugin ==
    call'.op = "run" => (nextPluginId' = nextPluginId /\ plugins' = plugins)

\* C20 amended: a plugin is instantiated exactly once, by the install call
\* that registers it, and never during binding or invocation; every command
\* that declares the plugin's name and was bound by run() while the plugin
\* was installed has the hooks called on that one instance, which such
\* commands share; a command bound before the install does not hold it.
C20_InstantiatedAtInstall ==
    /\ [](OneInstancePerEntry /\ HeldAreInstalled /\ HooksOnHeldInstances)
    /\ [][InstallConstructsOne /\ RunConstructsNoPlugin]_vars

C20_Witness ==
    /\ Invoked
    /\ result.outcome = "returned"
    /\ Len(commands) = 2
    /\ \A i \in 1..Len(commands) :
          /\ Len(commands[i].instance.plugins) = 2
          /\ commands[i].instance.plugins = result.invoked.plugins
          /\ DeclaredBy(i) = {1, 2}
    /\ Cardinality(CallsOf("plugin.beforeExecute")) = 2

\* ------------------------------------------------------------------- C21
\* what run() did with the process after the callback of the invoked command
Terminated == result.exit # 0

\* C21: when the invoked command fails and its onError returns a falsy value,
\* run() writes that error to the error stream and exits the process with
\* status 1; when onError returns a truthy value run() writes nothing and
\* returns without exiting, as it does when nothing failed.
C21_FalsyOnErrorExits ==
    /\ (Failed /\ ~CommandClass[result.invoked.cls].onError) =>
          /\ result.exit = 1
          /\ result.stderr = <<result.error>>
    /\ (Failed /\ CommandClass[result.invoked.cls].onError) =>
          /\ ~Terminated
          /\ result.stderr = <<>>
    /\ ~Failed => ~Terminated /\ result.stderr = <<>>

C21_Witness ==
    /\ Failed
    /\ CommandClass[result.invoked.cls].onError
    /\ result.error.kind = "validation"
    /\ ~Terminated

\* ------------------------------------------------------------------- C24
\* the call of the try block that raised the error
FailingKind ==
    IF result.error.kind = "validation" THEN "validateOptions" ELSE "execute"

PluginCallsAt == {i \in 1..Len(calls) : calls[i].plugin # NoPlugin}

\* C24: plugins cannot intercept or suppress an error.  When validation or
\* execute() fails, the call that follows the failing call is the command's
\* onError: no plugin hook is called after the failure, the only plugin hooks
\* of the invocation are the beforeExecute hooks that ran before it, and
\* whether the error is thrown on to the caller follows from the return value
\* of the command's own onError alone, whichever plugins were resolved.
C24_PluginsCannotIntercept ==
    Failed =>
       /\ Len(calls) >= 2
       /\ calls[Len(calls)].kind = "onError"
       /\ calls[Len(calls)].plugin = NoPlugin
       /\ calls[Len(calls) - 1].kind = FailingKind
       /\ \A i \in PluginCallsAt :
             calls[i].kind = "plugin.beforeExecute" /\ i < Len(calls) - 1
       /\ (result.outcome = "rethrown") = ~CommandClass[result.invoked.cls].onError
       /\ (result.outcome = "absorbed") = CommandClass[result.invoked.cls].onError

C24_Witness ==
    /\ Failed
    /\ Len(result.resolved) >= 2
    /\ PluginCallsAt # {}
    /\ ~CommandClass[result.invoked.cls].onError
    /\ result.outcome = "rethrown"

\* ------------------------------------------------------------------- C29
Inherits == Invoked /\ result.invoked.cls \notin OverridesOnError

\* C29: a command that does not override onError never absorbs a failure.
\* Whenever the invocation of such a command fails, in validation or in
\* execute(), the inherited onError is called and returns false, the callback
\* ends by throwing the error it caught, and the error arrives at the catch of
\* run(); no invocation of such a command ends absorbed.
C29_DefaultOnErrorPropagates ==
    Inherits =>
       /\ result.outcome \in {"returned", "rethrown"}
       /\ Failed =>
             /\ CallsOf("onError") # {}
             /\ result.outcome = "rethrown"
             /\ result.error # NoError
             /\ result.stderr = <<result.error>>

C29_Witness ==
    /\ Inherits
    /\ Failed
    /\ result.invoked.cls = "TestCommand"
    /\ result.error.kind = "validation"
    /\ result.outcome = "rethrown"

\* ------------------------------------------------------------------- C30
ExecuteThrew ==
    /\ Failed
    /\ result.error.kind = "thrown"
    /\ result.error.by.kind = "execute"

AfterCalls == CallsOf("afterExecute") \cup CallsOf("plugin.afterExecute")

\* C30: when execute() raises an error no afterExecute hook is called in that
\* invocation, neither the command's own nor that of a resolved plugin; an
\* invocation in which an afterExecute hook was called is one in which
\* execute() was called before the hook and nothing failed.
C30_NoAfterHooksOnThrow ==
    /\ ExecuteThrew =>
          /\ AfterCalls = {}
          /\ CallsOf("execute") # {}
          /\ calls[Len(calls)].kind = "onError"
    /\ (Invoked /\ AfterCalls # {}) =>
          /\ ~Failed
          /\ result.outcome = "returned"
          /\ \A a \in AfterCalls : \E e \in CallsOf("execute") : e < a

C30_Witness ==
    /\ ExecuteThrew
    /\ CommandClass[result.invoked.cls].afterExecute
    /\ \E i \in 1..Len(result.resolved) :
          PluginClass[result.resolved[i].cls].afterExecute
    /\ AfterCalls = {}

\* ------------------------------------------------------------------- C28
Registering(c) == c.op \in {"install", "use"}

\* the registry ps, cs holds an entry under the name of the class call c gave
HoldsEntryOf(c, ps, cs) ==
    IF c.op = "install"
    THEN \E i \in 1..Len(ps) : ps[i].name = PluginClass[c.cls].name
    ELSE \E i \in 1..Len(cs) : cs[i].name = CommandClass[c.cls].name

\* a successful install or use made on the value the install or use before it
\* evaluated to
ChainedCall ==
    /\ Registering(call)
    /\ result.returned = This
    /\ Registering(call')
    /\ result'.error = NoError

\* C28: every install and every use that does not throw evaluates to the
\* registry itself; so a second install or use can be called on the value of
\* the first, and after a chain of two that both succeed the registry holds an
\* entry for the class of the first call and one for the class of the second,
\* and the chain evaluates to the registry.
C28_ReturnsRegistry ==
    /\ []((Registering(call) /\ result.error = NoError) => result.returned = This)
    /\ [][ChainedCall =>
             /\ result'.returned = This
             /\ HoldsEntryOf(call, plugins', commands')
             /\ HoldsEntryOf(call', plugins', commands')]_vars

C28_Witness ==
    /\ call.op = "use"
    /\ result.returned = This
    /\ Len(commands) = 2
    /\ Len(plugins) = 2
    /\ plugins[1].name # plugins[2].name

\* ================================================================== help
\* the letters of the group tags, in the order localeCompare ranks them
Alphabet ==
    <<"a", "b", "c", "d", "e", "f", "g", "h", "i", "j", "k", "l", "m",
      "n", "o", "p", "q", "r", "s", "t", "u", "v", "w", "x", "y", "z">>

LetterRank(c) == CHOOSE i \in 1..Len(Alphabet) : Alphabet[i] = c

\* the group tags, spelled out as characters
Spelling ==
    [build |-> <<"b", "u", "i", "l", "d">>,
     test |-> <<"t", "e", "s", "t">>,
     default |-> <<"d", "e", "f", "a", "u", "l", "t">>]

RECURSIVE CompareLetters(_, _)
CompareLetters(a, b) ==
    IF a = <<>> THEN (IF b = <<>> THEN 0 ELSE -1)
    ELSE IF b = <<>> THEN 1
    ELSE IF LetterRank(Head(a)) < LetterRank(Head(b)) THEN -1
    ELSE IF LetterRank(Head(a)) > LetterRank(Head(b)) THEN 1
    ELSE CompareLetters(Tail(a), Tail(b))

\* a.localeCompare(b) on two tags of lower-case letters
localeCompare(a, b) == CompareLetters(Spelling[a], Spelling[b])

\* groupCommands(commands): the Map from group tag to the commands of that
\* group, both in insertion order; an entry without a group (use() stores
\* none) goes under DEFAULT_GROUP
RECURSIVE groupFrom(_, _, _)
groupFrom(cs, i, grouped) ==
    IF i > Len(cs) THEN grouped
    ELSE LET group == IF cs[i].group = NoGroup THEN DEFAULT_GROUP ELSE cs[i].group
         IN  IF \E k \in 1..Len(grouped) : grouped[k].group = group
             THEN groupFrom(cs, i + 1,
                      [k \in 1..Len(grouped) |->
                          IF grouped[k].group = group
                          THEN [grouped[k] EXCEPT !.commands = Append(@, cs[i].name)]
                          ELSE grouped[k]])
             ELSE groupFrom(cs, i + 1,
                      Append(grouped, [group |-> group, commands |-> <<cs[i].name>>]))

groupCommands(cs) == groupFrom(cs, 1, <<>>)

\* the groups compared by tag alone
compareGroupsByTag(a, b) == localeCompare(a.group, b.group)

\* the comparator of sortedGroups: DEFAULT_GROUP after every other tag, the
\* others by localeCompare
compareGroups(a, b) ==
    IF a.group = DEFAULT_GROUP THEN 1
    ELSE IF b.group = DEFAULT_GROUP THEN -1
    ELSE localeCompare(a.group, b.group)

\* Array.prototype.sort with that comparator (a stable sort)
InsertGroup(sorted, e) ==
    LET before == {k \in 1..Len(sorted) : compareGroups(sorted[k], e) <= 0}
        n == IF before = {} THEN 0
             ELSE CHOOSE k \in before : \A l \in before : l <= k
    IN  SubSeq(sorted, 1, n) \o <<e>> \o SubSeq(sorted, n + 1, Len(sorted))

RECURSIVE SortGroupsFrom(_, _)
SortGroupsFrom(done, rest) ==
    IF rest = <<>> THEN done
    ELSE SortGroupsFrom(InsertGroup(done, Head(rest)), Tail(rest))

sortedGroups(grouped) == SortGroupsFrom(<<>>, grouped)

\* the listing one wrapper appends: nothing when no command is registered
GroupedListing(cs) ==
    IF groupCommands(cs) = <<>> THEN <<>> ELSE <<sortedGroups(groupCommands(cs))>>

\* program.helpInformation(): the grouped listings that follow Commander's own
\* help text, one for each wrapper enhanceHelp put around the original
helpInformation(prog, cs) ==
    IF prog.helpInformation = "original" THEN <<>>
    ELSE IF prog.helpInformation = "enhanced" THEN GroupedListing(cs)
    ELSE GroupedListing(cs) \o GroupedListing(cs)

\* ---------------------------------------------------------------- HelpSpec
\* The registry starts with one to three commands of different groups
\* registered in some order, either not yet bound or bound by one run();
\* then commands are registered, with and without force, and run() is called.
HelpClasses == {"BuildCommand", "DeployCommand", "TestCommand"}

HelpRegistered ==
    {<<a>> : a \in HelpClasses}
        \cup {list \in HelpClasses \X HelpClasses : list[1] # list[2]}
        \cup {list \in HelpClasses \X HelpClasses \X HelpClasses :
                 list[1] # list[2] /\ list[1] # list[3] /\ list[2] # list[3]}

HelpArgv == {[NoArgv EXCEPT !.command = CommandClass[c].name] : c \in HelpClasses}

HelpInit ==
    \E list \in HelpRegistered, isBound \in BOOLEAN :
        \E used \in {useEach(list, 1, <<>>)} :
            /\ context = NoContext
            /\ cli = NoCli
            /\ plugins = <<>>
            /\ nextPluginId = 1
            /\ IF isBound
               THEN \E done \in {runOp(<<>>, used.commands, NewCommand, 1, NoArgv)} :
                        /\ commands = done.bound.commands
                        /\ program = done.bound.program
                        /\ nextCommandId = done.bound.nextCommandId
                        /\ call = [NoCall EXCEPT !.op = "run"]
                        /\ result = done.parsed.result
                        /\ calls = done.parsed.calls
               ELSE /\ commands = used.commands
                    /\ program = NewCommand
                    /\ nextCommandId = 1
                    /\ call = [NoCall EXCEPT !.op = "use", !.cls = list[Len(list)]]
                    /\ result = [NoResult EXCEPT !.returned = This]
                    /\ calls = <<>>

HelpNext ==
    \/ \E cls \in HelpClasses, force \in BOOLEAN : use(cls, force)
    \/ \E argv \in HelpArgv : run(argv)

HelpSpec == HelpInit /\ [][HelpNext]_vars

\* ------------------------------------------------------------------- C27
\* the tags in alphabetical order
TagOrder == <<"build", "default", "test">>

TagRank(tag) == CHOOSE i \in 1..Len(TagOrder) : TagOrder[i] = tag

\* the group a registered command is listed under: the one its class declares
\* once it is bound, 'default' when it declares none or is not bound
ListedUnder(i) ==
    IF commands[i].instance = NoInstance
          \/ CommandClass[commands[i].command].group = NoGroup
    THEN DEFAULT_GROUP
    ELSE CommandClass[commands[i].command].group

\* where the listing names the command: group index and position
PlacesOf(listing, name) ==
    {<<g, k>> \in (1..Len(listing)) \X (1..Len(commands)) :
        k <= Len(listing[g].commands) /\ listing[g].commands[k] = name}

WellGrouped(listing) ==
    /\ \A i \in 1..Len(commands) :
          /\ Cardinality(PlacesOf(listing, commands[i].name)) = 1
          /\ \A place \in PlacesOf(listing, commands[i].name) :
                listing[place[1]].group = ListedUnder(i)
    /\ \A g \in 1..Len(listing) :
          /\ listing[g].commands # <<>>
          /\ \A k \in 1..Len(listing[g].commands) :
                \E i \in 1..Len(commands) : commands[i].name = listing[g].commands[k]
    /\ \A g, h \in 1..Len(listing) : listing[g].group = listing[h].group => g = h

WellOrdered(listing) ==
    /\ \A g \in 1..Len(listing) :
          listing[g].group = DEFAULT_GROUP => g = Len(listing)
    /\ \A g, h \in 1..Len(listing) :
          (g < h /\ listing[h].group # DEFAULT_GROUP) =>
              TagRank(listing[g].group) < TagRank(listing[h].group)

Listings == helpInformation(program, commands)

\* C27: once run() has enhanced the help and a command is registered, the help
\* shows a grouped listing; in each grouped listing every registered command
\* is named exactly once, under the group its class declares, or under
\* 'default' when it declares none or is not yet bound; no group is listed
\* twice or empty; the 'default' group comes last and the other groups come
\* in alphabetical order of their tag.
C27_GroupedHelp ==
    /\ (program.helpInformation # "original" /\ commands # <<>>) => Listings # <<>>
    /\ \A n \in 1..Len(Listings) :
          WellGrouped(Listings[n]) /\ WellOrdered(Listings[n])

C27_Witness ==
    /\ call.op = "use"
    /\ call.force
    /\ program.helpInformation = "enhanced"
    /\ Len(commands) = 3
    /\ commands[1].command = "DeployCommand"
    /\ commands[1].instance = NoInstance
    /\ commands[2].command = "TestCommand"
    /\ commands[3].command = "BuildCommand"
    /\ Len(Listings) = 1
    /\ [g \in 1..Len(Listings[1]) |-> Listings[1][g].group]
          = <<"build", "test", "default">>

\* ------------------------------------------------------------------- C25
\* the plugins held by the invoked command that its class names in its static
\* `plugins` property
StaticallyDeclared ==
    {i \in 1..Len(result.invoked.plugins) :
        includes(CommandClass[result.invoked.cls].staticPlugins,
                 PluginClass[result.invoked.plugins[i].cls].name)}

\* C25 as stated: when a command whose class declares its plugins in the
\* static `plugins` property is invoked and nothing fails, every installed
\* plugin it names there has its beforeExecute and afterExecute hooks called
\* in the invocation, in ascending priority.
C25_StaticPluginsUsed ==
    (Invoked /\ ~Failed) =>
        /\ \A i \in StaticallyDeclared :
              /\ PluginClass[result.invoked.plugins[i].cls].beforeExecute =>
                    \E k \in CallsOf("plugin.beforeExecute") :
                        calls[k].plugin = result.invoked.plugins[i]
              /\ PluginClass[result.invoked.plugins[i].cls].afterExecute =>
                    \E k \in CallsOf("plugin.afterExecute") :
                        calls[k].plugin = result.invoked.plugins[i]
        /\ \A k, l \in CallsOf("plugin.beforeExecute") :
              k < l => PriorityOf(calls[k].plugin) <= PriorityOf(calls[l].plugin)

\* ============================================================ ContextSpec
\* contexts created over a behaviour (evaluations of the object literal at the
\* top of the callback)
MaxContexts == 2

\* the calls of the callback that take the context as an argument;
\* validateOptions(options) and execute() take none
ContextKinds ==
    {"plugin.beforeExecute", "beforeExecute", "afterExecute",
     "plugin.afterExecute", "onError"}

\* one context object kept and handed to every invocation
createContextOnce(created) == 1

\* const context = { name, options, args, startTime }: a new object, told from
\* the ones created before by its number
createContext(created) == created + 1

\* the context each call of the callback received, 0 for a call that takes
\* none: every hook is passed the one variable `context`
passContext(cs, ctx) ==
    [i \in 1..Len(cs) |-> IF cs[i].kind \in ContextKinds THEN ctx ELSE 0]

\* the history after a run(): when a callback ran it created one context and
\* passed it on; when none ran nothing was created
record(history, invoked, cs) ==
    IF invoked = NoInstance THEN [history EXCEPT !.passed = <<>>]
    ELSE [created |-> history.created + 1,
          passed |-> passContext(cs, createContext(history.created))]

\* run(), the contexts of its callback recorded
runRecorded(argv) ==
    /\ context.created < MaxContexts
    /\ bindAndParse(argv)
    /\ context' = record(context, result'.invoked, calls')

\* the command lines: no option or the options of a valid call
ContextArgv ==
    {argv \in ActionArgv :
        argv.options \in {<<>>, (Key_env :> "prod") @@ (Key_mode :> "production")}}

ContextNext == \E argv \in ContextArgv : runRecorded(argv)

\* from the bound commands of ActionInit, command lines are parsed one after
\* the other
ContextSpec == ActionInit /\ [][ContextNext]_vars

\* ------------------------------------------------------------------- C26
\* the contexts the calls of the most recent invocation received
PassedNow == {context.passed[i] : i \in 1..Len(context.passed)} \ {0}

OneContextPerInvocation ==
    Invoked =>
       /\ Len(context.passed) = Len(calls)
       /\ \A i \in 1..Len(calls) :
             IF calls[i].kind \in ContextKinds
             THEN context.passed[i] = context.created
             ELSE context.passed[i] = 0
       /\ Cardinality(PassedNow) <= 1
       /\ context.created >= 1

NewContextPerInvocation ==
    (call'.op = "run" /\ result'.invoked # NoInstance) =>
       /\ context'.created = context.created + 1
       /\ \A i \in 1..Len(context'.passed) :
             context'.passed[i] \notin 1..context.created

\* C26: every invocation creates one new context; the plugin hooks, the
\* command's beforeExecute and afterExecute and onError of that invocation
\* all receive that one object; and the object is none of those created
\* before, so no hook of an earlier invocation received it.
C26_FreshSharedContext ==
    /\ []OneContextPerInvocation
    /\ [][NewContextPerInvocation]_vars

C26_Witness ==
    /\ Invoked
    /\ context.created = 2
    /\ Failed
    /\ CallsOf("plugin.beforeExecute") # {}
    /\ CallsOf("beforeExecute") # {}
    /\ CallsOf("onError") # {}
    /\ PassedNow = {2}

\* ================================================================ CliSpec
\* cli.ts: runjShow walks the working directory, starts a load for every
\* plugin and command file without awaiting it, awaits them all together and
\* then calls initBuiltIn(CommandProgram).run().

\* a file of the working directory: `exports` is what the module exports by
\* default, `ext` what follows the first dot of its name
File(base, ext, exports) ==
    [path |-> base, ext |-> ext, exports |-> exports]

\* a working directory, in the order readdirSync lists its files
Cwd ==
    <<File("build", ".cmd.ts", "BuildCommand"),
      File("deploy", ".cmd.ts", "DeployCommand"),
      File("logger", ".plugin.ts", "LoggerPlugin"),
      File("simple", ".plugin.ts", "SimplePlugin"),
      File("timer", ".plugin.ts", "TimerPlugin")>>

\* the files traversaDirectory hands to the callback of runjShow
Files == cli.files

\* fn.endsWith('.plugin.ts') || fn.endsWith('.plugin.js'), and the same for
\* '.cmd': which loader the callback of runjShow starts for the file
PluginFiles ==
    {i \in 1..Len(Files) : Files[i].ext \in {".plugin.ts", ".plugin.js"}}
CommandFiles ==
    {i \in 1..Len(Files) : Files[i].ext \in {".cmd.ts", ".cmd.js"}}

\* a load: the promise loadPlugin or loadCommand returned and what became of
\* the file
NotStarted == [status |-> "none", outcome |-> "none"]
Pending == [status |-> "pending", outcome |-> "none"]
Fulfilled(outcome) == [status |-> "fulfilled", outcome |-> outcome]
Rejected(outcome) == [status |-> "rejected", outcome |-> outcome]

\* a catch block that logs and throws the error again, as loadCommand's does
loadPluginRethrowing(file, imported, ps, id) ==
    IF ~imported
    THEN [promise |-> Rejected("importFailed"), plugins |-> ps, constructed |-> 0]
    ELSE IF ~isPlugin(file.exports)
    THEN [promise |-> Fulfilled("skipped"), plugins |-> ps, constructed |-> 0]
    ELSE IF installOp(ps, file.exports, PluginClass[file.exports].force, id).error
               # NoError
    THEN [promise |-> Rejected("installFailed"), plugins |-> ps, constructed |-> 0]
    ELSE [promise |-> Fulfilled("registered"),
          plugins |-> installOp(ps, file.exports,
                                PluginClass[file.exports].force, id).plugins,
          constructed |-> 1]

\* loadPlugin(fn) from the end of its import on: `imported` tells whether the
\* import resolved.  Whatever the try block throws, the import or install, is
\* written with console.warn and the promise is fulfilled.
loadPlugin(file, imported, ps, id) ==
    IF ~imported
    THEN [promise |-> Fulfilled("importFailed"), plugins |-> ps, constructed |-> 0]
    ELSE IF ~isPlugin(file.exports)
    THEN [promise |-> Fulfilled("skipped"), plugins |-> ps, constructed |-> 0]
    ELSE IF installOp(ps, file.exports, PluginClass[file.exports].force, id).error
               # NoError
    THEN [promise |-> Fulfilled("installFailed"), plugins |-> ps, constructed |-> 0]
    ELSE [promise |-> Fulfilled("registered"),
          plugins |-> installOp(ps, file.exports,
                                PluginClass[file.exports].force, id).plugins,
          constructed |-> 1]

\* the export handed to use() without the isCommand test: use stores it under
\* the name it reads from it
loadCommandUnchecked(file, imported, cs) ==
    IF ~imported
    THEN [promise |-> Rejected("importFailed"), commands |-> cs]
    ELSE IF ~isCommand(file.exports)
    THEN [promise |-> Fulfilled("registered"),
          commands |-> Append(cs, [name |-> Undefined, command |-> file.exports,
                                   instance |-> NoInstance, group |-> NoGroup])]
    ELSE IF useOp(cs, file.exports, CommandClass[file.exports].force).error # NoError
    THEN [promise |-> Rejected("useFailed"), commands |-> cs]
    ELSE [promise |-> Fulfilled("registered"),
          commands |-> useOp(cs, file.exports,
                             CommandClass[file.exports].force).commands]

\* loadCommand with the catch block of loadPlugin: the error written and
\* dropped
loadCommandWarning(file, imported, cs) ==
    IF ~imported
    THEN [promise |-> Fulfilled("importFailed"), commands |-> cs]
    ELSE IF ~isCommand(file.exports)
    THEN [promise |-> Fulfilled("skipped"), commands |-> cs]
    ELSE IF useOp(cs, file.exports, CommandClass[file.exports].force).error # NoError
    THEN [promise |-> Fulfilled("useFailed"), commands |-> cs]
    ELSE [promise |-> Fulfilled("registered"),
          commands |-> useOp(cs, file.exports,
                             CommandClass[file.exports].force).commands]

\* loadCommand(fn) from the end of its import on: the catch block writes the
\* error with console.error and throws it again, so the promise is rejected
loadCommand(file, imported, cs) ==
    IF ~imported
    THEN [promise |-> Rejected("importFailed"), commands |-> cs]
    ELSE IF ~isCommand(file.exports)
    THEN [promise |-> Fulfilled("skipped"), commands |-> cs]
    ELSE IF useOp(cs, file.exports, CommandClass[file.exports].force).error # NoError
    THEN [promise |-> Rejected("useFailed"), commands |-> cs]
    ELSE [promise |-> Fulfilled("registered"),
          commands |-> useOp(cs, file.exports,
                             CommandClass[file.exports].force).commands]

\* only the plugin promises awaited
pluginsFulfilled(loads) ==
    \A i \in PluginFiles : loads[i].status = "fulfilled"

\* await Promise.all([...pluginPromises, ...commandPromises]) goes on when
\* every promise is fulfilled
allFulfilled(loads) ==
    \A i \in 1..Len(loads) : loads[i].status = "fulfilled"

\* Promise.all rejects as soon as one of its promises is rejected
anyRejected(loads) ==
    \E i \in 1..Len(loads) : loads[i].status = "rejected"

\* the command lines the program is started with
CliArgv ==
    {[NoArgv EXCEPT !.command = "--version"],
     [NoArgv EXCEPT !.command = "build"],
     [NoArgv EXCEPT !.command = "deploy", !.options = Key_env :> "prod"]}

CliInit ==
    /\ plugins = <<>>
    /\ commands = <<>>
    /\ program = NewCommand
    /\ nextPluginId = 1
    /\ nextCommandId = 1
    /\ call = NoCall
    /\ result = NoResult
    /\ calls = <<>>
    /\ context = NoContext
    /\ cli = [pc |-> "traversing", visited |-> 0, files |-> Cwd,
              loads |-> [i \in 1..Len(Cwd) |-> NotStarted],
              builtIn |-> NoBuiltIn]

\* the callback of traversaDirectory for the next file: the load is started
\* and its promise pushed, not awaited; after the last file runjShow awaits
\* the promises
visit ==
    /\ cli.pc = "traversing"
    /\ cli.visited < Len(Files)
    /\ cli' = [cli EXCEPT !.visited = @ + 1,
                          !.loads[cli.visited + 1] = Pending,
                          !.pc = IF cli.visited + 1 = Len(Files)
                                 THEN "awaiting" ELSE @]
    /\ UNCHANGED <<plugins, commands, program, nextPluginId, nextCommandId,
                   call, result, calls, context>>

\* the import of a plugin file settles and loadPlugin runs to its end
pluginLoaded(i, imported) ==
    /\ cli.loads[i] = Pending
    /\ \E done \in {loadPlugin(Files[i], imported, plugins, nextPluginId)} :
          /\ plugins' = done.plugins
          /\ nextPluginId' = nextPluginId + done.constructed
          /\ cli' = [cli EXCEPT !.loads[i] = done.promise]
    /\ UNCHANGED <<commands, program, nextCommandId, call, result, calls, context>>

\* the import of a command file settles and loadCommand runs to its end
commandLoaded(i, imported) ==
    /\ cli.loads[i] = Pending
    /\ \E done \in {loadCommand(Files[i], imported, commands)} :
          /\ commands' = done.commands
          /\ cli' = [cli EXCEPT !.loads[i] = done.promise]
    /\ UNCHANGED <<plugins, program, nextPluginId, nextCommandId, call, result,
                   calls, context>>

\* a rejected load ends runjShow: Promise.all rejects, or the rejection goes
\* unhandled while the directory is still being walked; run() is not reached
discoveryFailed ==
    /\ cli.pc \in {"traversing", "awaiting"}
    /\ anyRejected(cli.loads)
    /\ cli' = [cli EXCEPT !.pc = "failed"]
    /\ UNCHANGED <<plugins, commands, program, nextPluginId, nextCommandId,
                   call, result, calls, context>>

\* every promise fulfilled: initBuiltIn(CommandProgram).run().  An install
\* or use of a built-in that throws ends runjShow before run() is called
discovered(argv) ==
    /\ cli.pc = "awaiting"
    /\ allFulfilled(cli.loads)
    /\ \E builtIn \in {initBuiltIn(plugins, commands, nextPluginId)} :
          /\ plugins' = builtIn.plugins
          /\ nextPluginId' = builtIn.nextPluginId
          /\ IF builtIn.error = NoError
             THEN /\ \E done \in {runOp(builtIn.plugins, builtIn.commands, program,
                                        nextCommandId, argv)} :
                        /\ commands' = done.bound.commands
                        /\ program' = done.bound.program
                        /\ nextCommandId' = done.bound.nextCommandId
                        /\ result' = done.parsed.result
                        /\ calls' = done.parsed.calls
                  /\ call' = [NoCall EXCEPT !.op = "run", !.argv = argv]
                  /\ cli' = [cli EXCEPT !.pc = "ran"]
             ELSE /\ commands' = builtIn.commands
                  /\ result' = [NoResult EXCEPT !.error = builtIn.error]
                  /\ calls' = <<>>
                  /\ call' = [NoCall EXCEPT !.op = "initBuiltIn"]
                  /\ cli' = [cli EXCEPT !.pc = "failed"]
                  /\ UNCHANGED <<program, nextCommandId>>
    /\ UNCHANGED context

CliNext ==
    \/ visit
    \/ \E i \in PluginFiles, imported \in BOOLEAN : pluginLoaded(i, imported)
    \/ \E i \in CommandFiles, imported \in BOOLEAN : commandLoaded(i, imported)
    \/ discoveryFailed
    \/ \E argv \in CliArgv : discovered(argv)

CliSpec == CliInit /\ [][CliNext]_vars

\* the step of discovered as the event loop sees it: the await of Promise.all
\* resumes runjShow, whatever argv the process was started with
resumed ==
    /\ cli.pc = "awaiting"
    /\ allFulfilled(cli.loads)
    /\ cli' = [cli EXCEPT !.pc =
                  IF initBuiltIn(plugins, commands, nextPluginId).error = NoError
                  THEN "ran" ELSE "failed"]

\* every import settles and every continuation the event loop holds is run
CliFairSpec ==
    /\ CliSpec
    /\ WF_vars(visit)
    /\ WF_vars(\E i \in PluginFiles, imported \in BOOLEAN : pluginLoaded(i, imported))
    /\ WF_vars(\E i \in CommandFiles, imported \in BOOLEAN : commandLoaded(i, imported))
    /\ WF_vars(discoveryFailed)
    /\ WF_cli(resumed)

\* ------------------------------------------------------------------- C22
\* a plugin is registered for the class file i exports
RegisteredFrom(i) ==
    \E k \in 1..Len(plugins) : plugins[k].instance.cls = Files[i].exports

ImportFailed(i) == cli.loads[i].outcome = "importFailed"

SomeCommandRejected ==
    \E i \in CommandFiles : cli.loads[i].status = "rejected"

\* a plugin file whose import failed: its promise is fulfilled all the same
\* and nothing is registered for it
PluginFailureSkipped ==
    \A i \in PluginFiles :
        ImportFailed(i) => /\ cli.loads[i].status = "fulfilled"
                           /\ ~RegisteredFrom(i)

\* discovery fails only over a command file, never over a plugin file
OnlyCommandsAbort == cli.pc = "failed" => SomeCommandRejected

\* a command file whose import failed: its promise is rejected, and run() is
\* not called and nothing is bound
CommandFailureAborts ==
    \A i \in CommandFiles :
        ImportFailed(i) => /\ cli.loads[i].status = "rejected"
                           /\ cli.pc # "ran"
                           /\ call.op # "run"
                           /\ program.commands = <<>>

\* C22: a plugin file whose import fails is logged and skipped: its load ends
\* fulfilled, no plugin is registered for it, and it never makes discovery
\* fail, so that the other loads go on and run() is called unless a command
\* load is rejected; a command file whose import fails rejects its load, and
\* then run() is never called.
C22_ImportFailures ==
    /\ [](PluginFailureSkipped /\ OnlyCommandsAbort /\ CommandFailureAborts)
    /\ <>(cli.pc \in {"ran", "failed"})

C22_Witness ==
    /\ cli.pc = "ran"
    /\ call.op = "run"
    /\ ImportFailed(3)
    /\ ~RegisteredFrom(3)
    /\ RegisteredFrom(5)
    /\ Len(commands) = 2

\* ------------------------------------------------------------------- C23
BindingBegun == program.commands # <<>> \/ call.op = "run"

\* run() starts only when every load that was started has ended fulfilled,
\* and every file has been visited
RunAfterEveryLoad ==
    cli.pc = "ran" =>
        /\ cli.visited = Len(Files)
        /\ \A i \in 1..Len(Files) : cli.loads[i].status = "fulfilled"

BindingOnlyInRun == BindingBegun => cli.pc = "ran"

\* once binding has begun no load registers anything
NoLoadAfterBinding ==
    BindingBegun =>
        /\ cli'.loads = cli.loads
        /\ plugins' = plugins
        /\ commands' = commands

\* C23: discovery completes before binding, in every interleaving of the
\* loads: when run() starts every file has been visited and every load has
\* finished; commands are bound only by that run(); and no load installs or
\* registers anything after binding has begun.
C23_DiscoveryBeforeBinding ==
    /\ [](RunAfterEveryLoad /\ BindingOnlyInRun)
    /\ [][NoLoadAfterBinding]_vars

C23_Witness ==
    /\ cli.pc = "ran"
    /\ Len(program.commands) = 2
    /\ commands[1].command = "DeployCommand"
    /\ Len(plugins) = 2
    /\ cli.loads[4].outcome = "installFailed"

\* ---------------------------------------------------------------- HookSpec
\* The action callback with a hook that throws: one or two commands bound as
\* under ActionSpec, then command lines whose user code throws in execute()
\* or in one of the four kinds of hook.
HookKinds ==
    {"plugin.beforeExecute", "beforeExecute", "afterExecute", "plugin.afterExecute"}

HookThrowers == Throwers \cup HookKinds

HookOptions ==
    {Key_mode :> "staging",
     (Key_env :> "prod") @@ (Key_mode :> "production")}

HookArgv ==
    [command : {BuildCommand.name, StrictCommand.name, DeployCommand.name},
     options : HookOptions, throws : HookThrowers]

HookNext == \E argv \in HookArgv : run(argv)

HookSpec == ActionInit /\ [][HookNext]_vars

\* ------------------------------------------------------------------- C31
\* the hook the command line makes throw was called in this invocation
HookThrew ==
    /\ Invoked
    /\ call.argv.throws \in HookKinds
    /\ CallsOf(call.argv.throws) # {}

\* the calls a failure at a call of rank r leaves out
SkippedAfter(r) ==
    \A i \in 1..Len(calls) :
        calls[i].kind # "onError" => Rank(calls[i].kind) <= r

\* C31: an error raised by a before-hook or an after-hook, of a plugin or of
\* the command, goes to the command's onError as a validation or execute()
\* failure does: the throwing call is the only call of its kind, the call
\* after it is onError and is the last, no later hook, validation or execute()
\* is called, and the error is absorbed when onError returns true and thrown
\* again, to the catch of run(), when it returns false.
C31_HookErrorsRouted ==
    HookThrew =>
        /\ result.error.kind = "thrown"
        /\ result.error.by.kind = call.argv.throws
        /\ Cardinality(CallsOf(call.argv.throws)) = 1
        /\ Len(calls) >= 2
        /\ calls[Len(calls) - 1] = result.error.by
        /\ calls[Len(calls)] = Step("onError", NoPlugin)
        /\ Cardinality(CallsOf("onError")) = 1
        /\ SkippedAfter(Rank(call.argv.throws))
        /\ (Rank(call.argv.throws) <= 2) =>
              CallsOf("validateOptions") = {} /\ CallsOf("execute") = {}
        /\ onError(result.invoked.cls) =>
              result.outcome = "absorbed" /\ result.exit = 0
        /\ ~onError(result.invoked.cls) =>
              result.outcome = "rethrown" /\ result.exit = 1

C31_Witness ==
    /\ HookThrew
    /\ call.argv.throws = "plugin.beforeExecute"
    /\ Len(result.resolved) = 2
    /\ result.invoked.cls = "StrictCommand"
    /\ result.outcome = "rethrown"
    /\ Len(calls) = 2

\* ------------------------------------------------------------------- C32
\* a user function the command line makes throw was called, or validation
\* was reached and returned a message
SomethingRaised ==
    \/ call.argv.throws # "none" /\ CallsOf(call.argv.throws) # {}
    \/ /\ CallsOf("validateOptions") # {}
       /\ Truthy(validateOptions(result.invoked.cls, call.argv.options))

\* C32: in every invocation onError is called at most once; it is called
\* once, and the invocation does not end by returning normally from the try
\* block, when a hook, validation or execute() raised; it is not called when
\* all of them completed.
C32_OnErrorAtMostOnce ==
    Invoked =>
        /\ Cardinality(CallsOf("onError")) <= 1
        /\ SomethingRaised =>
              /\ Cardinality(CallsOf("onError")) = 1
              /\ result.outcome \in {"absorbed", "rethrown"}
        /\ ~SomethingRaised =>
              /\ CallsOf("onError") = {}
              /\ result.outcome = "returned"
              /\ CallsOf("execute") # {}

C32_Witness ==
    /\ Invoked
    /\ SomethingRaised
    /\ call.argv.throws = "afterExecute"
    /\ result.invoked.cls = "BuildCommand"
    /\ Cardinality(CallsOf("onError")) = 1
    /\ CallsOf("execute") # {}
    /\ result.outcome = "absorbed"

\* ------------------------------------------------------------------- C33
\* the calls of hook `kind` made on plugins registered under `name`
HookCallsFor(kind, name) ==
    {i \in CallsOf(kind) : PluginClass[calls[i].plugin.cls].name = name}

DeclaredNames ==
    {CommandClass[result.invoked.cls].plugins[i] :
        i \in 1..Len(CommandClass[result.invoked.cls].plugins)}

\* C33: in an invocation, whatever installs came before it, forced or not,
\* beforeExecute and afterExecute are each called at most once for every
\* plugin name the command declares.
C33_OneHookPerName ==
    Invoked =>
        \A name \in DeclaredNames :
            /\ Cardinality(HookCallsFor("plugin.beforeExecute", name)) <= 1
            /\ Cardinality(HookCallsFor("plugin.afterExecute", name)) <= 1

\* ------------------------------------------------------------------- C34
\* the call of this step was an install or a use that threw the
\* duplicate-name error
RegistrationRejected ==
    \/ call'.op = "install" /\ result'.error.kind = "PluginExists"
    \/ call'.op = "use" /\ result'.error.kind = "CommandExists"

\* C34: a rejected registration changes nothing: when install or use throws
\* the duplicate-name error the plugin list, the command map with every
\* instance it caches, and the parser are as they were before the call, no
\* plugin and no command instance has been constructed, and the call
\* evaluates to nothing.
C34_RejectedChangesNothing ==
    [][RegistrationRejected =>
          /\ plugins' = plugins
          /\ commands' = commands
          /\ program' = program
          /\ nextPluginId' = nextPluginId
          /\ nextCommandId' = nextCommandId
          /\ result'.returned = Undefined
          /\ calls' = <<>>]_vars

C34_Witness ==
    /\ call.op = "install"
    /\ call.cls = "SimplePlugin"
    /\ result.error.kind = "PluginExists"
    /\ Len(plugins) = 1
    /\ plugins[1].plugin = "LoggerPlugin"
    /\ nextPluginId = 2
    /\ \E i \in 1..Len(commands) : Len(commands[i].instance.plugins) = 1

\* ----------------------------------------------------------- DiscoverySpec
\* runjShow over other working directories.
\* three plugins of pairwise distinct names and priorities
DistinctPlugins ==
    <<File("build", ".cmd.ts", "BuildCommand"),
      File("error-handler", ".plugin.ts", "ErrorHandlerPlugin"),
      File("logger", ".plugin.ts", "LoggerPlugin"),
      File("timer", ".plugin.ts", "TimerPlugin")>>

\* two plugin files whose classes are both named logger
SameNamePlugins ==
    <<File("build", ".cmd.ts", "BuildCommand"),
      File("logger", ".plugin.ts", "LoggerPlugin"),
      File("simple", ".plugin.ts", "SimplePlugin"),
      File("timer", ".plugin.ts", "TimerPlugin")>>

\* the examples directory: build.cmd.js and build.cmd.ts both export a
\* command named build
SameNameCommands ==
    <<File("build", ".cmd.js", "BuildCommandJs"),
      File("build", ".cmd.ts", "BuildCommand"),
      File("logger", ".plugin.ts", "LoggerPlugin"),
      File("timer", ".plugin.ts", "TimerPlugin")>>

\* files whose default export is not a class of the kind their name says: a
\* plain object, an arrow function, a plugin class in a command file
NotClasses ==
    <<File("build", ".cmd.ts", "BuildCommand"),
      File("config", ".cmd.ts", "object"),
      File("helpers", ".plugin.ts", "function"),
      File("logger", ".plugin.ts", "LoggerPlugin"),
      File("timer", ".cmd.ts", "TimerPlugin")>>

\* classes that set force, next to classes of the same name that do not
Forcing ==
    <<File("build", ".cmd.ts", "BuildCommand"),
      File("build-next", ".cmd.ts", "ForcedBuildCommand"),
      File("logger", ".plugin.ts", "LoggerPlugin"),
      File("logger-next", ".plugin.ts", "ForcedLoggerPlugin")>>

Directories ==
    {DistinctPlugins, SameNamePlugins, SameNameCommands, NotClasses, Forcing}

DiscoveryInit ==
    /\ plugins = <<>>
    /\ commands = <<>>
    /\ program = NewCommand
    /\ nextPluginId = 1
    /\ nextCommandId = 1
    /\ call = NoCall
    /\ result = NoResult
    /\ calls = <<>>
    /\ context = NoContext
    /\ \E files \in Directories :
          cli = [pc |-> "traversing", visited |-> 0, files |-> files,
                 loads |-> [i \in 1..Len(files) |-> NotStarted],
                 builtIn |-> NoBuiltIn]

DiscoverySpec == DiscoveryInit /\ [][CliNext]_vars

\* every import settles and every continuation the event loop holds is run
DiscoveryFairSpec ==
    /\ DiscoverySpec
    /\ WF_vars(visit)
    /\ WF_vars(\E i \in PluginFiles, imported \in BOOLEAN : pluginLoaded(i, imported))
    /\ WF_vars(\E i \in CommandFiles, imported \in BOOLEAN : commandLoaded(i, imported))
    /\ WF_vars(discoveryFailed)
    /\ WF_cli(resumed)

\* ------------------------------------------------------------------- C35
\* the plugin classes the plugin files of the directory export
ExportedPlugins == {Files[i].exports : i \in PluginFiles} \cap DOMAIN PluginClass

DistinctNamesAndPriorities ==
    \A p, q \in ExportedPlugins :
        p # q => /\ PluginClass[p].name # PluginClass[q].name
                 /\ PluginClass[p].priority # PluginClass[q].priority

PluginLoadsSettled ==
    /\ cli.pc \in {"awaiting", "ran", "failed"}
    /\ \A i \in PluginFiles : cli.loads[i].status = "fulfilled"

\* the plugin classes whose import succeeded
Imported ==
    {Files[i].exports : i \in {j \in PluginFiles : ~ImportFailed(j)}}
        \cap DOMAIN PluginClass

\* C35: when the plugin files of the directory export plugins of pairwise
\* distinct names and priorities, the plugin list after discovery is the same
\* whatever the order in which the imports completed: it holds one entry for
\* each plugin whose import succeeded, in strictly ascending priority, and the
\* plugin before-hooks and after-hooks of an invocation are called in that
\* order.
C35_OrderIndependent ==
    (DistinctNamesAndPriorities /\ PluginLoadsSettled) =>
        /\ {plugins[k].plugin : k \in 1..Len(plugins)} = Imported
        /\ Len(plugins) = Cardinality(Imported)
        /\ \A k \in 1..(Len(plugins) - 1) :
              plugins[k].priority < plugins[k + 1].priority
        /\ \A k \in 1..Len(plugins) :
              plugins[k].priority = PluginClass[plugins[k].plugin].priority
        /\ \A kind \in {"plugin.beforeExecute", "plugin.afterExecute"} :
              \A i, j \in CallsOf(kind) :
                  i < j => PriorityOf(calls[i].plugin) < PriorityOf(calls[j].plugin)

\* the import that was started last completed first
C35_Witness ==
    /\ DistinctNamesAndPriorities
    /\ PluginLoadsSettled
    /\ cli.pc = "ran"
    /\ Len(plugins) = 3
    /\ plugins[1].instance.id = 3
    /\ plugins[2].instance.id = 1
    /\ plugins[3].instance.id = 2
    /\ Cardinality(CallsOf("plugin.beforeExecute")) = 2

\* ------------------------------------------------------------------- C36
\* files i and j both export a class of the kind their name says, under the
\* same name, and neither class sets force
CollidingPlugins(i, j) ==
    /\ i # j
    /\ isPlugin(Files[i].exports) /\ isPlugin(Files[j].exports)
    /\ PluginClass[Files[i].exports].name = PluginClass[Files[j].exports].name
    /\ ~PluginClass[Files[i].exports].force /\ ~PluginClass[Files[j].exports].force

CollidingCommands(i, j) ==
    /\ i # j
    /\ isCommand(Files[i].exports) /\ isCommand(Files[j].exports)
    /\ CommandClass[Files[i].exports].name = CommandClass[Files[j].exports].name
    /\ ~CommandClass[Files[i].exports].force /\ ~CommandClass[Files[j].exports].force

\* both modules were imported and both loads have ended
BothLoaded(i, j) ==
    /\ cli.loads[i].status \in {"fulfilled", "rejected"}
    /\ cli.loads[j].status \in {"fulfilled", "rejected"}
    /\ ~ImportFailed(i) /\ ~ImportFailed(j)

\* of two colliding plugin files one is installed; the other load caught the
\* duplicate-name error and ended fulfilled
OnePluginInstalled ==
    \A i, j \in PluginFiles :
        (CollidingPlugins(i, j) /\ BothLoaded(i, j)) =>
            /\ {cli.loads[i], cli.loads[j]} =
                  {Fulfilled("registered"), Fulfilled("installFailed")}
            /\ \A k \in {i, j} :
                  cli.loads[k].outcome = "registered" =>
                      \A n \in NamedPlugins(PluginClass[Files[k].exports].name) :
                          plugins[n].plugin = Files[k].exports
            /\ Cardinality(NamedPlugins(PluginClass[Files[i].exports].name)) = 1

\* the load that reaches install first is the one that installs
FirstInstallWins ==
    \A i \in PluginFiles :
        (/\ isPlugin(Files[i].exports)
         /\ ~PluginClass[Files[i].exports].force
         /\ cli.loads[i] = Pending
         /\ cli'.loads[i].status = "fulfilled"
         /\ cli'.loads[i].outcome # "importFailed") =>
           IF some(plugins, PluginClass[Files[i].exports].name)
           THEN cli'.loads[i].outcome = "installFailed" /\ plugins' = plugins
           ELSE cli'.loads[i].outcome = "registered"

\* of two colliding command files the second use() throws, its load is
\* rejected, and run() is not called
CommandCollisionFails ==
    \A i, j \in CommandFiles :
        (CollidingCommands(i, j) /\ BothLoaded(i, j)) =>
            /\ {cli.loads[i], cli.loads[j]} =
                  {Fulfilled("registered"), Rejected("useFailed")}
            /\ cli.pc # "ran"
            /\ call.op # "run"

\* discovery fails only over a command file
PluginCollisionGoesOn ==
    /\ \A i \in PluginFiles : cli.loads[i].status # "rejected"
    /\ cli.pc = "failed" => \E i \in CommandFiles : cli.loads[i].status = "rejected"

\* C36: of two plugin files with the same name, neither forcing, exactly one
\* is installed, the one whose load reaches install first; the other's
\* duplicate-name error stays inside the loader, whose promise is fulfilled,
\* so discovery goes on and ends with run() called unless a command load was
\* rejected.  Two command files with the same name reject the second load:
\* discovery fails and run() is not called.
C36_NameCollisions ==
    /\ [](OnePluginInstalled /\ CommandCollisionFails /\ PluginCollisionGoesOn)
    /\ [][FirstInstallWins]_vars
    /\ <>(cli.pc \in {"ran", "failed"})

\* simple.plugin.ts was installed before logger.plugin.ts, and run() went on
C36_Witness ==
    /\ cli.files = SameNamePlugins
    /\ cli.loads[2] = Fulfilled("installFailed")
    /\ cli.loads[3] = Fulfilled("registered")
    /\ cli.pc = "ran"
    /\ call.op = "run"
    /\ Cardinality(CallsOf("plugin.beforeExecute")) = 2

\* ------------------------------------------------------------------- C37
\* the default export of file i is a class of the kind the file name says
PassesCheck(i) ==
    IF i \in PluginFiles THEN isPlugin(Files[i].exports)
    ELSE isCommand(Files[i].exports)

\* the load of file i ends in this step
Settles(i) == cli.loads[i] = Pending /\ cli'.loads[i] # Pending

\* the load of a file that fails the check ends without a call of install or
\* use and without an error, unless the import itself failed
SkippedUntouched ==
    \A i \in 1..Len(Files) :
        (Settles(i) /\ ~PassesCheck(i)) =>
            /\ plugins' = plugins
            /\ commands' = commands
            /\ nextPluginId' = nextPluginId
            /\ \/ cli'.loads[i].outcome = "importFailed"
               \/ cli'.loads[i] = Fulfilled("skipped")

\* the load of a file that passes the check registers its class as install
\* or use does when called with the force flag of that class
RegisteredWithOwnForce ==
    \A i \in 1..Len(Files) :
        (Settles(i) /\ PassesCheck(i) /\ cli'.loads[i].outcome # "importFailed") =>
            IF i \in PluginFiles
            THEN IF some(plugins, PluginClass[Files[i].exports].name)
                    /\ ~PluginClass[Files[i].exports].force
                 THEN cli'.loads[i].outcome = "installFailed" /\ plugins' = plugins
                 ELSE /\ cli'.loads[i].outcome = "registered"
                      /\ Len(plugins') = Len(plugins) + 1
                      /\ \E k \in 1..Len(plugins') :
                            /\ plugins'[k].plugin = Files[i].exports
                            /\ plugins'[k].instance.id = nextPluginId
            ELSE IF has(commands, CommandClass[Files[i].exports].name)
                    /\ ~CommandClass[Files[i].exports].force
                 THEN cli'.loads[i].outcome = "useFailed" /\ commands' = commands
                 ELSE /\ cli'.loads[i].outcome = "registered"
                      /\ \E k \in 1..Len(commands') :
                            /\ commands'[k].command = Files[i].exports
                            /\ commands'[k].name = CommandClass[Files[i].exports].name

\* the registry holds only classes that passed the check of their loader
OnlyChecked ==
    /\ \A k \in 1..Len(plugins) :
          \E i \in PluginFiles :
              isPlugin(Files[i].exports) /\ plugins[k].plugin = Files[i].exports
    /\ \A k \in 1..Len(commands) :
          \E i \in CommandFiles :
              isCommand(Files[i].exports) /\ commands[k].command = Files[i].exports

\* C37: a discovered file whose default export does not inherit the base
\* class its loader asks for is not handed to install or use: its load ends
\* fulfilled without an error and the registry is as before.  Only exports
\* that pass the check are registered, and install or use is called with the
\* force flag of the exported class.
C37_OnlyCheckedExports ==
    /\ []OnlyChecked
    /\ [][SkippedUntouched /\ RegisteredWithOwnForce]_vars

\* every file that fails the check was skipped, the others were registered,
\* and run() was called
C37_Witness ==
    /\ cli.files = NotClasses
    /\ cli.pc = "ran"
    /\ cli.loads[2] = Fulfilled("skipped")
    /\ cli.loads[3] = Fulfilled("skipped")
    /\ cli.loads[5] = Fulfilled("skipped")
    /\ Len(commands) = 1
    /\ Len(plugins) = 1

\* ------------------------------------------------------------------- C38
\* C38: however many times run() was called on the parser since the last
\* reset, the help text rendered while a command is registered holds the
\* grouped listing exactly once.
C38_ListingOnce ==
    (program.helpInformation # "original" /\ commands # <<>>) =>
        Len(Listings) = 1

\* ------------------------------------------------------------ BuiltInSpec
\* runjShow with classes in the lists ./built-in exports.
ThreeFiles ==
    <<File("build", ".cmd.ts", "BuildCommand"),
      File("logger", ".plugin.ts", "LoggerPlugin"),
      File("timer", ".plugin.ts", "TimerPlugin")>>

\* lists whose classes collide with nothing, collide without force (after an
\* entry that does not collide), and collide with force
BuiltIns ==
    {[plugins |-> <<"ErrorHandlerPlugin">>, commands |-> <<"DeployCommand">>],
     [plugins |-> <<"ErrorHandlerPlugin", "TimerPlugin">>, commands |-> <<>>],
     [plugins |-> <<>>, commands |-> <<"DeployCommand", "BuildCommandJs">>],
     [plugins |-> <<"ForcedLoggerPlugin">>, commands |-> <<"ForcedBuildCommand">>]}

BuiltInInit ==
    /\ plugins = <<>>
    /\ commands = <<>>
    /\ program = NewCommand
    /\ nextPluginId = 1
    /\ nextCommandId = 1
    /\ call = NoCall
    /\ result = NoResult
    /\ calls = <<>>
    /\ context = NoContext
    /\ \E builtIn \in BuiltIns :
          cli = [pc |-> "traversing", visited |-> 0, files |-> ThreeFiles,
                 loads |-> [i \in 1..Len(ThreeFiles) |-> NotStarted],
                 builtIn |-> builtIn]

BuiltInSpec == BuiltInInit /\ [][CliNext]_vars

\* ------------------------------------------------------------------- C39
\* the step in which runjShow goes on from its await
AfterDiscovery == cli.pc = "awaiting" /\ cli'.pc \in {"ran", "failed"} /\ allFulfilled(cli.loads)

\* the classes of the registry are those the files of the directory export
OnlyDiscovered ==
    /\ \A k \in 1..Len(plugins) :
          \E i \in PluginFiles : plugins[k].plugin = Files[i].exports
    /\ \A k \in 1..Len(commands) :
          \E i \in CommandFiles : commands[k].command = Files[i].exports

\* a built-in without force whose name the registry holds
PluginCollides ==
    \E b \in 1..Len(BUILT_IN_PLUGINS) :
        /\ ~PluginClass[BUILT_IN_PLUGINS[b]].force
        /\ NamedPlugins(PluginClass[BUILT_IN_PLUGINS[b]].name) # {}

CommandCollides ==
    \E b \in 1..Len(BUILT_IN_COMMANDS) :
        /\ ~CommandClass[BUILT_IN_COMMANDS[b]].force
        /\ NamedCommands(CommandClass[BUILT_IN_COMMANDS[b]].name) # {}

\* no built-in is registered while discovery is under way
BuiltInsLast ==
    cli.pc \in {"traversing", "awaiting"} => OnlyDiscovered

\* what the registration of the built-ins does
BuiltInsRegistered ==
    AfterDiscovery =>
        /\ (PluginCollides \/ CommandCollides) =>
              /\ cli'.pc = "failed"
              /\ call'.op # "run"
              /\ program' = program
              /\ result'.error.kind =
                    IF PluginCollides THEN "PluginExists" ELSE "CommandExists"
        /\ ~(PluginCollides \/ CommandCollides) =>
              /\ cli'.pc = "ran"
              /\ call'.op = "run"
              \* a plugin joins the entries of its name, which stay
              /\ Len(plugins') = Len(plugins) + Len(BUILT_IN_PLUGINS)
              /\ \A k \in 1..Len(plugins) :
                    \E n \in 1..Len(plugins') : plugins'[n] = plugins[k]
              /\ \A b \in 1..Len(BUILT_IN_PLUGINS) :
                    \E n \in 1..Len(plugins') :
                        /\ plugins'[n].plugin = BUILT_IN_PLUGINS[b]
                        /\ plugins'[n].instance.id >= nextPluginId
              \* a command replaces the entry of its name
              /\ \A b \in 1..Len(BUILT_IN_COMMANDS) :
                    \E n \in 1..Len(commands') :
                        /\ commands'[n].command = BUILT_IN_COMMANDS[b]
                        /\ \A m \in 1..Len(commands') :
                              commands'[m].name = commands'[n].name => m = n

\* run() is not called once a built-in was rejected
NoRunAfterRejection ==
    (cli.pc = "failed") => (call.op # "run" /\ program.commands = <<>>)

\* C39: the built-in plugins and commands are registered after every
\* discovered file has been loaded, each with the force flag of its class.  A
\* built-in with force whose name is taken joins the plugin entries of that
\* name, or replaces the command of that name; a built-in without force
\* whose name is taken makes its install or use throw the duplicate-name
\* error, and run() is not called.
C39_BuiltInsAfterDiscovery ==
    /\ [](BuiltInsLast /\ NoRunAfterRejection)
    /\ [][BuiltInsRegistered]_vars

\* the forced built-ins joined the logger plugin and replaced the build command
C39_Witness ==
    /\ cli.pc = "ran"
    /\ cli.builtIn.plugins = <<"ForcedLoggerPlugin">>
    /\ Cardinality(NamedPlugins("logger")) = 2
    /\ Len(commands) = 1
    /\ commands[1].command = "ForcedBuildCommand"
    /\ result.invoked.cls = "ForcedBuildCommand"

\* ---------------------------------------------------------------- FlagSpec
\* The required check of validateOptions by itself: one option spec and one
\* parsed options object are drawn, and the check is applied to them.
MaxFlagLen == 4

FlagAlphabet == {"-", "n", " ", "\t"}

\* the flag strings: every string of the alphabet up to the bound, and the
\* flags the commands declare
Flags ==
    UNION {[1..n -> FlagAlphabet] : n \in 0..MaxFlagLen}
        \cup {Flag_name, Flag_verbose, Flag_env, Flag_mode, Flag_watch}

\* values an option holds: a string, the empty string, false, null, undefined
OptionValues == {"value", "", "false", Null, Undefined}

OptionKeys == {<<>>, <<"n">>, <<"n", "n">>, <<"-", "n">>, Key_name}

\* the objects command.opts() returns
OptionObjects == {<<>>} \cup {k :> v : k \in OptionKeys, v \in OptionValues}

\* the body of the loop of validateOptions for one option: the key looked up
\* and whether the loop returns the required message at this option
requiredCheck(option, options) ==
    [key |-> extractOptionName(option.flag),
     missing |-> option.required /\ IsNullish(options, extractOptionName(option.flag))]

FlagInit ==
    /\ plugins = <<>>
    /\ commands = <<>>
    /\ program = NewCommand
    /\ nextPluginId = 1
    /\ nextCommandId = 1
    /\ \E flag \in Flags, required \in BOOLEAN, options \in OptionObjects :
          call = [op |-> "none", option |-> [flag |-> flag, required |-> required],
                  options |-> options]
    /\ result = NoResult
    /\ calls = <<>>
    /\ context = NoContext
    /\ cli = NoCli

checkRequired ==
    /\ call.op = "none"
    /\ call' = [call EXCEPT !.op = "validateOptions"]
    /\ result' = requiredCheck(call.option, call.options)
    /\ UNCHANGED <<plugins, commands, program, nextPluginId, nextCommandId,
                   calls, context, cli>>

FlagNext == checkRequired

FlagSpec == FlagInit /\ [][FlagNext]_vars

\* ------------------------------------------------------------------- C40
Whitespace == {" ", "\t"}

\* key is flag without its leading one or two dashes, cut before the first
\* whitespace
IsKeyOf(key, flag) ==
    \E d \in 0..2 :
        /\ d <= Len(flag)
        /\ \A j \in 1..d : flag[j] = "-"
        /\ d = 0 => (Len(flag) = 0 \/ flag[1] # "-")
        /\ d = 1 => (Len(flag) = 1 \/ flag[2] # "-")
        /\ Len(key) <= Len(flag) - d
        /\ \A j \in 1..Len(key) :
              key[j] = flag[d + j] /\ key[j] \notin Whitespace
        /\ Len(flag) > d + Len(key) => flag[d + Len(key) + 1] \in Whitespace

HoldsValue(options, key) ==
    key \in DOMAIN options /\ options[key] \notin {Null, Undefined}

\* C40: the key a required option is looked up under is its flag string
\* without the leading one or two dashes and without everything from the
\* first whitespace on ('--name <value>' gives 'name', '--verbose' gives
\* 'verbose'); the required check fails exactly when the parsed options hold
\* no value other than null or undefined under that key.
C40_RequiredLookupKey ==
    call.op = "validateOptions" =>
        /\ IsKeyOf(result.key, call.option.flag)
        /\ call.option.flag = Flag_name => result.key = Key_name
        /\ call.option.flag = Flag_verbose =>
              result.key = <<"v", "e", "r", "b", "o", "s", "e">>
        /\ result.missing =
              (call.option.required /\ ~HoldsValue(call.options, result.key))

\* '--name <value>' with { name: false }: a value is held, the check passes
C40_Witness ==
    /\ call.op = "validateOptions"
    /\ call.option = [flag |-> Flag_name, required |-> TRUE]
    /\ call.options = (Key_name :> "false")
    /\ result.key = Key_name
    /\ ~result.missing

====
